---- MODULE Spec2Model ----
(***************************************************************************)
(* Claude Relay (src/src/whatsapp.js, the relay that starts at line 347):  *)
(* message authorization, the dedup gate, command parsing, the bridge      *)
(* call with its timer, and the message_create handler with its            *)
(* suspension points.                                                      *)
(*                                                                         *)
(* Text is a sequence of tokens: a token is one character, one emoji, one  *)
(* of the WhatsApp id suffixes "@c.us", "@lid", "@g.us", or a fixed piece  *)
(* of text the code writes as one literal.  The empty                      *)
(* sequence stands for '' and for undefined/null alike, which is how the   *)
(* code reads them (msg.author || '', if (!author), if (CONFIG.x)).        *)
(*                                                                         *)
(* Specifications: Spec (the relay, one handler at a time), SpecLive (Spec *)
(* with the timers of the event loop), SpecAuth (isAuthorized alone),      *)
(* SpecText (parseCommand, formatResponse and the handler on one text),    *)
(* SpecOverlap (two handlers waiting side by side), SpecAudit (start-up    *)
(* and an audit log that may not be writable), SpecSend (replies whose     *)
(* send fails), SpecFair and SpecSendFair (with the event loop's progress),*)
(* SpecLong (a worker with long output), SpecCommands (one text for every  *)
(* case of the switch), SpecService (start, SIGINT, SIGTERM), SpecEnv (the *)
(* setup wizard's parseEnvFile and buildEnvContent, src/unnamed/part_000). *)
(***************************************************************************)
EXTENDS Integers, Sequences, FiniteSets, TLC

VARIABLES
    CONFIG,             \* [allowedGroupId, allowedNumber], read-only after start
    processedMessages,  \* insertion-ordered Set of inbound ids (oldest first)
    sentReplies,        \* insertion-ordered Set of reply ids (oldest first)
    handlers,           \* message_create invocations that passed the gates,
                        \* each with the audit-log lines it appended
    calls,              \* callBridge invocations: worker, timer, promise
    outbox,             \* messages sent with msg.reply: id, text, ack, echo
    audit,              \* audit-log lines appended by isAuthorized and by
                        \* the start-up and shutdown code
    delivered,          \* ids of the inbound events delivered so far, in order
    authIn,             \* last message given to isAuthorized on its own
    authOut,            \* and what isAuthorized returned for it
    textIn,             \* the input given to one function or to the handler
    textOut,            \* and what came back: [fn, value]
    auditWritable,      \* whether fs.appendFileSync on the audit log succeeds
    relay               \* the process: "loading", "starting", "initializing",
                        \* "ready", "stopping", "stopped", "failed", "crashed"

vars ==
    <<CONFIG, processedMessages, sentReplies, handlers, calls, outbox, audit,
      delivered, authIn, authOut, textIn, textOut, auditWritable, relay>>

relayVars ==
    <<processedMessages, sentReplies, handlers, calls, outbox, delivered>>

\* ------------------------------------------------------------------ text

Empty ==
    <<>>

\* String.prototype.includes for a one-token needle
Includes(s, tok) ==
    \E i \in 1..Len(s) : s[i] = tok

\* String.prototype.replace(tok, ''): removes the FIRST occurrence only
ReplaceFirst(s, tok) ==
    IF Includes(s, tok)
    THEN LET i == CHOOSE k \in 1..Len(s) :
                    s[k] = tok /\ \A j \in 1..(k-1) : s[j] # tok
         IN  SubSeq(s, 1, i-1) \o SubSeq(s, i+1, Len(s))
    ELSE s

\* String.prototype.startsWith
StartsWith(s, p) ==
    Len(p) <= Len(s) /\ SubSeq(s, 1, Len(p)) = p

\* String.prototype.includes for a needle of several tokens
IncludesSeq(s, p) ==
    \E i \in 0..(Len(s) - Len(p)) : SubSeq(s, i+1, i+Len(p)) = p

\* String.prototype.slice(n)
Slice(s, n) ==
    SubSeq(s, n+1, Len(s))

WhiteSpace ==
    {" ", "\n", "\t"}

RECURSIVE TrimStart(_)
TrimStart(s) ==
    IF s # <<>> /\ Head(s) \in WhiteSpace THEN TrimStart(Tail(s)) ELSE s

RECURSIVE TrimEnd(_)
TrimEnd(s) ==
    IF s # <<>> /\ s[Len(s)] \in WhiteSpace
    THEN TrimEnd(SubSeq(s, 1, Len(s) - 1))
    ELSE s

\* String.prototype.trim
Trim(s) ==
    TrimEnd(TrimStart(s))

UpperCase ==
    <<"A", "B", "C", "D", "E", "F", "G", "H", "I", "J", "K", "L", "M",
      "N", "O", "P", "Q", "R", "S", "T", "U", "V", "W", "X", "Y", "Z">>

LowerCase ==
    <<"a", "b", "c", "d", "e", "f", "g", "h", "i", "j", "k", "l", "m",
      "n", "o", "p", "q", "r", "s", "t", "u", "v", "w", "x", "y", "z">>

LowerTok(t) ==
    IF \E i \in 1..26 : UpperCase[i] = t
    THEN LowerCase[CHOOSE i \in 1..26 : UpperCase[i] = t]
    ELSE t

\* a comparison that keeps the case of the text
ToLowerCaseKept(s) ==
    s

\* String.prototype.toLowerCase
ToLowerCase(s) ==
    [i \in 1..Len(s) |-> LowerTok(s[i])]

\* ------------------------------------------------------------------ ids

GroupG ==
    <<"g", "@g.us">>

GroupH ==
    <<"h", "@g.us">>

SelfId ==
    <<"9", "@c.us">>

LidAlias ==
    <<"8", "@lid">>

Num12 ==
    <<"1", "2">>

Num123 ==
    <<"1", "2", "3">>

\* ------------------------------------------------------ authorization

\* the msgInfo object of isAuthorized, spread into every AUTH_REJECT entry
MsgInfo(msg) ==
    [from |-> msg.from, author |-> msg.author, fromMe |-> msg.fromMe,
     type |-> msg.type, hasMedia |-> msg.hasMedia]

AuditEntry(event, reason, msg) ==
    [event |-> event, id |-> msg.id, reason |-> reason, info |-> MsgInfo(msg)]

\* the conversation id the group gate compares with CONFIG.allowedGroupId
GateChatId(msg) ==
    msg.from

\* const author = (msg.author || '').replace('@c.us', '').replace('@lid', '')
AuthorId(msg) ==
    ReplaceFirst(ReplaceFirst(msg.author, "@c.us"), "@lid")

\* const isAllowedSender = author === CONFIG.allowedNumber
IsAllowedSender(author, allowed) ==
    author = allowed

\* the direct-mode tail of isAuthorized (no group configured)
DirectMode(msg) ==
    IF ~msg.fromMe
    THEN [ok |-> FALSE, log |-> <<AuditEntry("AUTH_REJECT", "not_from_self", msg)>>]
    ELSE IF Includes(msg.from, "@g.us")
         THEN [ok |-> FALSE, log |-> <<>>]
         ELSE [ok |-> TRUE, log |-> <<>>]

\* isAuthorized(msg): what it returns and what it appends to the audit log
AuthOutcome(cfg, msg) ==
    IF cfg.allowedGroupId # Empty
    THEN IF GateChatId(msg) # cfg.allowedGroupId
         THEN [ok |-> FALSE, log |-> <<AuditEntry("AUTH_REJECT", "wrong_group", msg)>>]
         ELSE IF cfg.allowedNumber # Empty
              THEN IF msg.fromMe
                   THEN [ok |-> TRUE, log |-> <<>>]
                   ELSE IF AuthorId(msg) = Empty
                        THEN [ok |-> FALSE,
                              log |-> <<AuditEntry("AUTH_REJECT", "empty_author", msg)>>]
                        ELSE IF ~IsAllowedSender(AuthorId(msg), cfg.allowedNumber)
                             THEN [ok |-> FALSE,
                                   log |-> <<AuditEntry("AUTH_REJECT", "wrong_sender", msg)>>]
                             ELSE [ok |-> TRUE, log |-> <<>>]
              ELSE [ok |-> TRUE, log |-> <<>>]
    ELSE DirectMode(msg)

isAuthorized(msg) ==
    AuthOutcome(CONFIG, msg).ok

\* ------------------------------------------------------------ CONFIG

\* CONFIG.maxResponseLength
maxResponseLength ==
    4000

\* ------------------------------------------------------ command parser

\* an argument with its own whitespace trimmed off
RemainderTrimmed(trimmed, n) ==
    Trim(Slice(trimmed, n))

\* trimmed.slice(n): what follows the "/cc " or "/ask " prefix
Remainder(trimmed, n) ==
    Slice(trimmed, n)

\* a default branch that folds the case of the text
PassthroughLower(trimmed) ==
    [type |-> "claude-code", content |-> [i \in 1..Len(trimmed) |-> LowerTok(trimmed[i])]]

\* a parser without the default branch: the function returns undefined
PassthroughMissing(trimmed) ==
    [type |-> "undefined", content |-> Empty]

\* the default branch: the trimmed text goes to Claude Code
Passthrough(trimmed) ==
    [type |-> "claude-code", content |-> trimmed]

\* parseCommand(text): { type, content }
parseCommand(text) ==
    LET trimmed == Trim(text)
        lower   == ToLowerCase(trimmed)
    IN  IF StartsWith(trimmed, <<"/", "c", "c", " ">>)
          THEN [type |-> "claude-code", content |-> Remainder(trimmed, 4)]
        ELSE IF StartsWith(trimmed, <<"/", "a", "s", "k", " ">>)
          THEN [type |-> "api", content |-> Remainder(trimmed, 5)]
        ELSE IF StartsWith(trimmed, <<"/", "s", "t", "a", "t", "u", "s">>)
          THEN [type |-> "status", content |-> Empty]
        ELSE IF StartsWith(trimmed, <<"/", "s", "t", "o", "p">>)
          THEN [type |-> "stop", content |-> Empty]
        ELSE IF StartsWith(trimmed, <<"/", "h", "e", "l", "p">>)
          THEN [type |-> "help", content |-> Empty]
        ELSE IF StartsWith(trimmed, <<"/", "g", "r", "o", "u", "p", "i", "d">>)
          THEN [type |-> "groupid", content |-> Empty]
        ELSE IF StartsWith(trimmed, <<"/", "c", "d", " ">>)
          THEN [type |-> "cd", content |-> Trim(Slice(trimmed, 4))]
        ELSE IF trimmed = <<"/", "c", "d">>
          THEN [type |-> "cd", content |-> Empty]
        ELSE IF StartsWith(trimmed, <<"/", "p", "w", "d">>)
          THEN [type |-> "pwd", content |-> Empty]
        ELSE IF StartsWith(trimmed, <<"/", "s", "e", "s", "s", "i", "o", "n", "s">>)
          THEN [type |-> "sessions", content |-> Empty]
        ELSE IF \/ trimmed = <<"1">>
                \/ lower = <<"y", "e", "s">>
                \/ lower = <<"a", "p", "p", "r", "o", "v", "e">>
          THEN [type |-> "approve", content |-> <<"y", "e", "s">>]
        ELSE IF \/ trimmed = <<"2">>
                \/ lower = <<"n", "o">>
                \/ lower = <<"r", "e", "j", "e", "c", "t">>
          THEN [type |-> "approve", content |-> <<"n", "o">>]
        ELSE IF lower = <<"c", "o", "n", "t", "i", "n", "u", "e">>
          THEN [type |-> "continue", content |-> Empty]
        ELSE Passthrough(trimmed)

\* ------------------------------------------------- response formatter

EmptyResponse ==
    <<"(empty response)">>

TruncatedMark ==
    <<"\n", "\n", ".", ".", ".", " ", "(", "t", "r", "u", "n", "c", "a", "t", "e", "d", ")">>

\* a formatter that cuts without saying so
formatResponseCut(text) ==
    IF text = Empty THEN EmptyResponse
    ELSE IF Len(text) > maxResponseLength
         THEN SubSeq(text, 1, maxResponseLength)
         ELSE text

\* formatResponse(text)
formatResponse(text) ==
    IF text = Empty THEN EmptyResponse
    ELSE IF Len(text) > maxResponseLength
         THEN SubSeq(text, 1, maxResponseLength) \o TruncatedMark
         ELSE text

\* ------------------------------------------------- reply texts, markers

ERobot ==
    "emoji:robot"

EChart ==
    "emoji:chart"

EStop ==
    "emoji:stop"

EGear ==
    "emoji:gear"

EThink ==
    "emoji:thinking"

ECross ==
    "emoji:cross"

EPin ==
    "emoji:pin"

ECheck ==
    "emoji:check"

EMic ==
    "emoji:mic"

EMemo ==
    "emoji:memo"

HelpTitle ==
    <<"*Claude Relay Commands*">>

\* getHelp(): the title line, then the command list as one piece of text
getHelp ==
    <<ERobot, " ">> \o HelpTitle \o <<"\n", "\n", "(command list)">>

NoVisibleResponse ==
    <<"(no visible response">>

\* a bot-response test that looks at the start of the body only
isBotResponseStartOnly(body) ==
    \/ \E m \in {ERobot, EChart, EStop, EGear, EThink, ECross, EPin, ECheck} :
           StartsWith(body, <<m>>)
    \/ StartsWith(body, NoVisibleResponse)

\* the bot-response test of the message_create handler
isBotResponse(body) ==
    \/ StartsWith(body, <<ERobot>>) \/ StartsWith(body, <<EChart>>)
    \/ StartsWith(body, <<EStop>>)  \/ StartsWith(body, <<EGear>>)
    \/ StartsWith(body, <<EThink>>) \/ StartsWith(body, <<ECross>>)
    \/ StartsWith(body, <<EPin>>)   \/ StartsWith(body, <<ECheck>>)
    \/ StartsWith(body, NoVisibleResponse)
    \/ IncludesSeq(body, HelpTitle)

\* ----------------------------------------------------------- audit log

\* sanitizeForLog's default maxLength
sanitizeMaxLength ==
    200

Digits ==
    {"0", "1", "2", "3", "4", "5", "6", "7", "8", "9"}

Alnum ==
    {UpperCase[i] : i \in 1..26} \cup {LowerCase[i] : i \in 1..26} \cup Digits

\* length of the longest run of tokens of `class` at the head of s
RECURSIVE RunLen(_, _)
RunLen(s, class) ==
    IF s # <<>> /\ Head(s) \in class THEN 1 + RunLen(Tail(s), class) ELSE 0

\* s.replace(/<prefix>[<class>]+/g, mark)
RECURSIVE ReplaceAllPattern(_, _, _, _)
ReplaceAllPattern(s, prefix, class, mark) ==
    IF s = <<>> THEN <<>>
    ELSE IF StartsWith(s, prefix) /\ RunLen(Slice(s, Len(prefix)), class) > 0
         THEN <<mark>> \o ReplaceAllPattern(
                  Slice(s, Len(prefix) + RunLen(Slice(s, Len(prefix)), class)),
                  prefix, class, mark)
         ELSE <<Head(s)>> \o ReplaceAllPattern(Tail(s), prefix, class, mark)

\* sanitizeForLog(text)
sanitizeForLog(text) ==
    IF text = Empty THEN Empty
    ELSE LET cut  == IF Len(text) > sanitizeMaxLength
                     THEN SubSeq(text, 1, sanitizeMaxLength) \o <<"...[truncated]">>
                     ELSE text
             keys == ReplaceAllPattern(cut, <<"s", "k", "-", "a", "n", "t", "-">>,
                                       Alnum \cup {"-"}, "[API_KEY_REDACTED]")
         IN  ReplaceAllPattern(keys, <<"B", "e", "a", "r", "e", "r", " ">>,
                               Alnum \cup {"-", "_", "."}, "[TOKEN_REDACTED]")

\* ---------------------------------------------- isAuthorized on its own

\* msg.id.remote || msg.from: the chat id as the repository's tests take it
canonicalConversationId(msg) ==
    IF msg.remote # Empty THEN msg.remote ELSE msg.from

\* the author with a trailing @c.us or @lid removed
canonicalSenderId(msg) ==
    IF msg.author # Empty /\ msg.author[Len(msg.author)] \in {"@c.us", "@lid"}
    THEN SubSeq(msg.author, 1, Len(msg.author) - 1)
    ELSE msg.author

AuthConfigs ==
    [allowedGroupId : {Empty, GroupG}, allowedNumber : {Empty, Num12, Num123}]

AuthFroms ==
    {GroupG, GroupH, SelfId, LidAlias}

AuthRemotes ==
    {Empty, GroupG, GroupH, SelfId}

AuthAuthors ==
    {Empty, <<"1", "2", "@c.us">>, <<"1", "2", "@lid">>, <<"1", "@c.us">>,
     <<"2", "@c.us">>, <<"1", "2", "3", "@c.us">>, <<"1", "2", "3", "@lid">>}

AuthEnvelopes ==
    [id : {0}, from : AuthFroms, remote : AuthRemotes, author : AuthAuthors,
     fromMe : BOOLEAN, type : {"chat"}, hasMedia : {FALSE}, body : {Empty},
     hasQuotedMsg : {FALSE}]

RelayInit ==
    /\ relay = "ready"
    /\ auditWritable = TRUE
    /\ textIn = <<>>
    /\ textOut = <<>>
    /\ processedMessages = <<>>
    /\ sentReplies = <<>>
    /\ handlers = <<>>
    /\ calls = {}
    /\ outbox = {}
    /\ delivered = <<>>

InitAuth ==
    /\ CONFIG \in AuthConfigs
    /\ RelayInit
    /\ audit = <<>>
    /\ authIn = <<>>
    /\ authOut = FALSE

\* one call isAuthorized(msg) with its audit-log side effect
AuthCheck(msg) ==
    /\ authIn = <<>>
    /\ authIn' = <<msg>>
    /\ authOut' = isAuthorized(msg)
    /\ audit' = IF auditWritable THEN audit \o AuthOutcome(CONFIG, msg).log ELSE audit
    /\ UNCHANGED <<CONFIG, relayVars, textIn, textOut, auditWritable, relay>>

NextAuth ==
    \E msg \in AuthEnvelopes : AuthCheck(msg)

SpecAuth ==
    InitAuth /\ [][NextAuth]_vars

AuthMsg ==
    authIn[1]

SelfChat ==
    CONFIG.allowedGroupId = Empty

GroupSender ==
    CONFIG.allowedGroupId # Empty

\* C1: under SelfChat (no group id configured) isAuthorized returns true if
\* and only if the message is self-sent and its conversation is not a group.
C1_SelfChatIff ==
    (authIn # <<>> /\ SelfChat) =>
        (authOut <=> (AuthMsg.fromMe
                      /\ ~Includes(canonicalConversationId(AuthMsg), "@g.us")))

\* C2: under GroupSender(g, s) every message whose canonical conversation id
\* is not exactly g is rejected, whatever its sender, self-sent or not.
C2_WrongGroupRejected ==
    (authIn # <<>> /\ GroupSender
       /\ canonicalConversationId(AuthMsg) # CONFIG.allowedGroupId) => ~authOut

\* C3: under GroupSender(g, s) with s configured, a message in conversation g
\* is authorized if and only if it is self-sent or its canonical sender id is
\* non-empty and exactly equal to s.
C3_SenderExactIff ==
    (authIn # <<>> /\ GroupSender /\ CONFIG.allowedNumber # Empty
       /\ canonicalConversationId(AuthMsg) = CONFIG.allowedGroupId) =>
        (authOut <=> (AuthMsg.fromMe
                      \/ (canonicalSenderId(AuthMsg) # Empty
                          /\ canonicalSenderId(AuthMsg) = CONFIG.allowedNumber)))

\* C4: the conversation id compared with the configured group id is id.remote
\* whenever it is present, not from: with from a linked-device alias and
\* id.remote = g the message counts as in g (the sender rule alone decides),
\* and with from = g and id.remote another conversation it is rejected.
C4_PrefersIdRemote ==
    (authIn # <<>> /\ GroupSender /\ AuthMsg.remote # Empty) =>
        /\ (AuthMsg.remote = CONFIG.allowedGroupId /\ AuthMsg.from = LidAlias) =>
              (authOut <=> (\/ CONFIG.allowedNumber = Empty
                            \/ AuthMsg.fromMe
                            \/ (AuthorId(AuthMsg) # Empty
                                /\ AuthorId(AuthMsg) = CONFIG.allowedNumber)))
        /\ (AuthMsg.from = CONFIG.allowedGroupId
            /\ AuthMsg.remote # CONFIG.allowedGroupId) => ~authOut

\* =====================================================================
\* The relay: dedup sets, message_create handler, bridge calls, replies
\* =====================================================================

\* inbound events the chat client delivers (echoes of replies not counted)
MaxDeliveries ==
    2

\* deliveries that pass every gate and start a handler: the other deliveries
\* (duplicates, denied, marked or quoted messages) come before, during and
\* after the handler's run
MaxHandlers ==
    1

\* the size the two dedup sets are limited to (1000 in the code)
DedupCap ==
    2

\* the relay's mutable state as one value
Cur ==
    [p |-> processedMessages, s |-> sentReplies, h |-> handlers, c |-> calls,
     o |-> outbox, a |-> audit, w |-> auditWritable]

Commit(st) ==
    /\ processedMessages' = st.p
    /\ sentReplies' = st.s
    /\ handlers' = st.h
    /\ calls' = st.c
    /\ outbox' = st.o
    /\ audit' = st.a

\* ------------------------------------------------- JS Set (insertion order)

SetHas(set, id) ==
    \E i \in 1..Len(set) : set[i] = id

SetAdd(set, id) ==
    IF SetHas(set, id) THEN set ELSE Append(set, id)

\* if (set.size > 1000) set.delete(set.values().next().value)
LimitSize(set) ==
    IF Len(set) > DedupCap THEN Tail(set) ELSE set

\* a handler that does not record the ids of its replies
AddSentNever(st, id) ==
    st

\* sentReplies.add(id)
AddSent(st, id) ==
    [st EXCEPT !.s = SetAdd(@, id)]

\* ------------------------------------------------------ small steps

SetPc(st, h, pc) ==
    [st EXCEPT !.h[h].pc = pc]

\* auditLog(event, details) called by handler h: the line is appended, or
\* appendFileSync throws and the catch block writes to the console
Log(st, h, entry) ==
    IF st.w THEN [st EXCEPT !.h[h].log = Append(@, entry)] ELSE st

\* msg.reply(text): a new message with a new id (above 100, apart from the
\* inbound ids), quoting msg, in msg's chat
Reply(st, h, text) ==
    [st EXCEPT !.o = @ \cup {[id |-> 100 + 10 * h
                                      + Cardinality({r \in st.o : r.h = h}) + 1,
                              h |-> h, text |-> text, acked |-> FALSE,
                              echoed |-> FALSE]}]

\* setTimeout(..., CONFIG.timeout) in callBridge
ArmTimerNever ==
    FALSE

ArmTimer ==
    TRUE

\* callBridge(command, args): spawn the worker, arm the timer, pending promise
CallBridge(st, h, command, arg) ==
    [st EXCEPT !.c = @ \cup {[id |-> 10 * h + Cardinality({c \in st.c : c.h = h}) + 1,
                              h |-> h, command |-> command, arg |-> arg,
                              proc |-> "running", timer |-> ArmTimer,
                              killed |-> FALSE, exit |-> <<>>, result |-> <<>>]}]

\* ------------------------------------------------------ audit entries

CmdLogInfo(hd) ==
    [from |-> hd.msg.from, author |-> hd.msg.author, fromMe |-> hd.msg.fromMe,
     commandType |-> hd.cmd.type, content |-> sanitizeForLog(hd.cmd.content)]

VoiceLogInfo(hd) ==
    [from |-> hd.msg.from, author |-> hd.msg.author, fromMe |-> hd.msg.fromMe,
     commandType |-> "voice"]

\* ----------------------------------------------------- command dispatch

ErrorText(message) ==
    <<ECross, " Error: ">> \o message

\* the final msg.reply(formatResponse(response)) of the try block
FinalReply(st, h, response) ==
    SetPc(Reply([st EXCEPT !.h[h].response = response], h,
                formatResponse(response)), h, "final")

\* a catch block that calls the bridge again instead
ErrorReplyRetry(st, h, message) ==
    SetPc(CallBridge(st, h, st.h[h].cmd.type, [name |-> "", value |-> Empty]),
          h, "bridge")

\* a catch block that only writes to the console
ErrorReplySilent(st, h, message) ==
    SetPc([st EXCEPT !.h[h].error = message], h, "done")

\* the catch block: msg.reply(`❌ Error: ${error.message}`)
ErrorReply(st, h, message) ==
    SetPc(Reply([st EXCEPT !.h[h].error = message], h, ErrorText(message)),
          h, "err")

\* a dispatch that drops the argument of the call
BridgeCommandNoArg(st, h, command, arg) ==
    SetPc(CallBridge(st, h, command, [name |-> "", value |-> Empty]), h, "bridge")

BridgeCommand(st, h, command, arg) ==
    SetPc(CallBridge(st, h, command, arg), h, "bridge")

NoArg ==
    [name |-> "", value |-> Empty]

\* the switch on cmd.type, up to its first await
Dispatch(st, h) ==
    LET cmd == st.h[h].cmd
        msg == st.h[h].msg
    IN  CASE cmd.type = "help" -> FinalReply(st, h, getHelp)
          [] cmd.type = "groupid" ->
                FinalReply(st, h, <<EPin, " *Chat ID:* ">> \o msg.from)
          [] cmd.type \in {"status", "stop", "continue", "pwd", "sessions"} ->
                BridgeCommand(st, h, cmd.type, NoArg)
          [] cmd.type = "approve" ->
                BridgeCommand(st, h, "approve", [name |-> "value", value |-> cmd.content])
          [] cmd.type = "api" ->
                SetPc(Reply(st, h, <<EThink, " Thinking...">>), h, "ack")
          [] cmd.type = "claude-code" ->
                SetPc(Reply(st, h, <<EGear, " Sending to Claude Code...">>), h, "ack")
          [] cmd.type = "cd" ->
                IF cmd.content = Empty
                THEN FinalReply(st, h, <<ECross, " Usage: /cd <path>", "\n",
                                     "Example: /cd ~/git/my-project">>)
                ELSE BridgeCommand(st, h, "cd", [name |-> "path", value |-> cmd.content])
          [] OTHER -> FinalReply(st, h, <<"emoji:question",
                                       " Unknown command. Send /help for usage.">>)

NewHandler(msg, cmd) ==
    [msg |-> msg, pc |-> "start", cmd |-> cmd, response |-> Empty, error |-> Empty,
     log |-> <<>>]

\* parse, log CMD_RECEIVED, dispatch
StartCommand(st, msg) ==
    LET h   == Len(st.h) + 1
        hd  == NewHandler(msg, parseCommand(msg.body))
        st1 == [st EXCEPT !.h = Append(@, hd)]
        st2 == Log(st1, h, [event |-> "CMD_RECEIVED", id |-> msg.id, info |-> CmdLogInfo(hd)])
    IN  Dispatch(st2, h)

\* the voice branch up to its first await
StartVoice(st, msg) ==
    LET h   == Len(st.h) + 1
        hd  == NewHandler(msg, [type |-> "voice", content |-> Empty])
        st1 == [st EXCEPT !.h = Append(@, hd)]
        st2 == Log(st1, h, [event |-> "VOICE_RECEIVED", id |-> msg.id, info |-> VoiceLogInfo(hd)])
    IN  SetPc(Reply(st2, h, <<EMic, " Transcribing voice message...">>), h, "v_ack")

IsVoice(msg) ==
    msg.hasMedia /\ msg.type \in {"ptt", "audio"}

\* the bot-response and quoted-reply skips, then the command
SkipOrCommandNoQuoteCheck(st, msg) ==
    IF isBotResponse(msg.body) THEN st ELSE StartCommand(st, msg)

SkipOrCommand(st, msg) ==
    IF isBotResponse(msg.body) THEN st
    ELSE IF msg.hasQuotedMsg THEN st
    ELSE StartCommand(st, msg)

Handle(st, msg) ==
    IF IsVoice(msg) THEN StartVoice(st, msg) ELSE SkipOrCommand(st, msg)

\* if (!isAuthorized(msg)) return;  with isAuthorized's audit-log entry
AfterAuthNoCheck(st, msg) ==
    Handle(st, msg)

AfterAuth(st, msg) ==
    LET st1 == IF st.w THEN [st EXCEPT !.a = @ \o AuthOutcome(CONFIG, msg).log] ELSE st
    IN  IF ~isAuthorized(msg) THEN st1 ELSE Handle(st1, msg)

\* the sentReplies gate and the trimming of both sets
AfterRecorded(st, msg) ==
    IF SetHas(st.s, msg.id) THEN st
    ELSE AfterAuth([st EXCEPT !.p = LimitSize(@), !.s = LimitSize(@)], msg)

\* if (processedMessages.has(id)) return; processedMessages.add(id)
MessageCreateNoGate(st, msg) ==
    AfterRecorded([st EXCEPT !.p = SetAdd(@, msg.id)], msg)

\* client.on('message_create'): everything up to the first await
MessageCreate(st, msg) ==
    IF SetHas(st.p, msg.id) THEN st
    ELSE AfterRecorded([st EXCEPT !.p = SetAdd(@, msg.id)], msg)

\* ------------------------------------------------------ bridge results

\* what the worker wrote and how it ended
ExitOkJson ==
    [code |-> 0, stdout |-> [kind |-> "object", response |-> <<"y", "e", "s">>,
                             error |-> Empty, raw |-> Empty], stderr |-> Empty]

\* exit 0 with {"response": "ok"}
ExitOkStatus ==
    [code |-> 0, stdout |-> [kind |-> "object", response |-> <<"o", "k">>,
                             error |-> Empty, raw |-> Empty], stderr |-> Empty]

\* exit 0 with a JSON object that reports an error: {"error": "bad"}
ExitOkError ==
    [code |-> 0, stdout |-> [kind |-> "object", response |-> Empty,
                             error |-> <<"b", "a", "d">>, raw |-> Empty],
     stderr |-> Empty]

\* exit 0 with output that is valid JSON but not an object: 42
ExitOkScalar ==
    [code |-> 0, stdout |-> [kind |-> "scalar", response |-> Empty, error |-> Empty,
                             raw |-> <<"4", "2", "\n">>], stderr |-> Empty]

ExitOkRaw ==
    [code |-> 0, stdout |-> [kind |-> "text", response |-> Empty, error |-> Empty,
                             raw |-> <<" ", "h", "i", "\n">>], stderr |-> Empty]

ExitFail ==
    [code |-> 1, stdout |-> [kind |-> "text", response |-> Empty, error |-> Empty,
                             raw |-> <<"p", "a", "r", "t">>],
     stderr |-> <<"k", "e", "y", " ", "s", "k", "-", "a", "n", "t", "-", "x", "1">>]

\* a non-zero exit with nothing written to stderr
ExitFailSilent ==
    [code |-> 2, stdout |-> [kind |-> "text", response |-> Empty, error |-> Empty,
                             raw |-> Empty], stderr |-> Empty]

\* close after the timer's proc.kill(): code is null (-1 here)
ExitKilled ==
    [code |-> -1, stdout |-> [kind |-> "text", response |-> Empty, error |-> Empty,
                              raw |-> Empty], stderr |-> Empty]

WorkerExits ==
    {ExitOkJson, ExitOkError, ExitOkScalar, ExitOkRaw, ExitFail, ExitFailSilent}

Resolved(response, error) ==
    [ok |-> TRUE, response |-> response, error |-> error, message |-> Empty]

Rejected(message) ==
    [ok |-> FALSE, response |-> Empty, error |-> Empty, message |-> message]

\* try { resolve(JSON.parse(stdout)) } catch { resolve({ response: stdout.trim() }) }
ParseStdout(stdout) ==
    CASE stdout.kind = "object" -> Resolved(stdout.response, stdout.error)
      [] stdout.kind = "scalar" -> Resolved(Empty, Empty)
      [] OTHER -> Resolved(Trim(stdout.raw), Empty)

\* a close listener that does not look at the exit code
CloseResultIgnoringCode(exit) ==
    ParseStdout(exit.stdout)

\* proc.on('close', (code) => ...): the first close listener
CloseResult(exit) ==
    IF exit.code # 0
    THEN Rejected(IF exit.stderr # Empty THEN exit.stderr
                  ELSE <<"Bridge exited with code ", ToString(exit.code)>>)
    ELSE ParseStdout(exit.stdout)

TimedOut ==
    Rejected(<<"Operation timed out">>)

\* an error listener that resolves instead
SpawnFailedAsSuccess ==
    Resolved(Empty, Empty)

SpawnFailed ==
    Rejected(<<"spawn python3 ENOENT">>)

\* ------------------------------------------------- handler continuations

\* `❌ Transcription failed: ${voiceResult.error}`
VoiceFail(st, h, err) ==
    SetPc(Reply([st EXCEPT !.h[h].error = err], h,
                <<ECross, " Transcription failed: ">> \o err), h, "v_fail")

\* JSON.stringify(status, null, 2)
JsonStringify(value) ==
    <<"{json}">>

\* a switch that passes the text of the result on as it is
ResponseForBare(cmd, value) ==
    value.response

\* the response each case of the switch builds from the bridge result
ResponseFor(cmd, value) ==
    CASE cmd.type = "status" ->
            <<EChart, " *Status*", "\n", "\n">> \o
                (IF value.response # Empty THEN value.response ELSE JsonStringify(value))
      [] cmd.type = "stop" ->
            <<EStop, " ">> \o
                (IF value.response # Empty THEN value.response ELSE <<"Stop signal sent">>)
      [] OTHER -> value.response

\* the handler resumes after `await callBridge(...)` settles
OnSettled(st, h, res) ==
    LET hd  == st.h[h]
    IN  CASE hd.pc = "bridge" ->
                IF res.ok THEN FinalReply(st, h, ResponseFor(hd.cmd, res))
                ELSE ErrorReply(st, h, res.message)
          [] hd.pc = "v_tr" ->
                IF ~res.ok THEN VoiceFail(st, h, res.message)
                ELSE IF res.error # Empty THEN VoiceFail(st, h, res.error)
                ELSE IF res.response = Empty
                     \* transcribedText.slice(...) on undefined throws a TypeError
                     \* outside every try block: the handler ends there
                     THEN SetPc([st EXCEPT !.h[h].error = <<"TypeError">>], h, "threw")
                ELSE LET st1 == [st EXCEPT !.h[h].cmd.content = res.response]
                         st2 == Log(st1, h, [event |-> "VOICE_TRANSCRIBED", id |-> hd.msg.id,
                                             info |-> VoiceLogInfo(hd),
                                             transcribedContent |-> sanitizeForLog(res.response)])
                     IN  SetPc(Reply(st2, h, <<EMemo, " *Transcribed:* ">> \o res.response
                                        \o <<"\n", "\n", EGear, " Sending to Claude Code...">>),
                               h, "v_conf")
          [] hd.pc = "v_cc" ->
                IF res.ok
                THEN SetPc(Reply([st EXCEPT !.h[h].response = res.response], h,
                                 formatResponse(res.response)), h, "v_final")
                ELSE SetPc(Reply([st EXCEPT !.h[h].error = res.message], h,
                                 ErrorText(res.message)), h, "v_err")
          [] OTHER -> st

\* one result queue for all calls: the first waiting handler gets the result
SettleShared(st, c, result) ==
    IF c.result = <<>>
    THEN OnSettled(st, CHOOSE h \in 1..Len(st.h) :
                           /\ st.h[h].pc \in {"bridge", "v_tr", "v_cc"}
                           /\ \A g \in 1..(h-1) : st.h[g].pc \notin {"bridge", "v_tr", "v_cc"},
                   result)
    ELSE st

\* resolve(...) / reject(...): only the first one settles the promise
Settle(st, c, result) ==
    IF c.result = <<>> THEN OnSettled(st, c.h, result) ELSE st

\* a promise that takes the outcome of the last event
SettledLast(c, result) ==
    [c EXCEPT !.result = <<result>>]

\* the call's record after an event: promise, process, timer, kill
Settled(c, result) ==
    IF c.result = <<>> THEN [c EXCEPT !.result = <<result>>] ELSE c

PutCall(st, c, c2) ==
    [st EXCEPT !.c = (@ \ {c}) \cup {c2}]

\* a voice branch that parses the transcribed text first
VoiceDispatchParsed(st, h) ==
    SetPc(CallBridge(st, h, parseCommand(st.h[h].cmd.content).type,
                     [name |-> "prompt", value |-> st.h[h].cmd.content]), h, "v_cc")

\* callBridge('claude-code', { prompt: transcribedText })
VoiceDispatch(st, h) ==
    SetPc(CallBridge(st, h, "claude-code",
                     [name |-> "prompt", value |-> st.h[h].cmd.content]), h, "v_cc")

\* the handler resumes after `await msg.reply(...)`: record the id, go on
OnReplyAck(st, r) ==
    LET h   == r.h
        hd  == st.h[h]
        st1 == AddSent(st, r.id)
    IN  CASE hd.pc = "ack" ->
                BridgeCommand(st1, h, hd.cmd.type,
                              [name |-> "prompt", value |-> hd.cmd.content])
          [] hd.pc = "final" ->
                SetPc(Log(st1, h, [event |-> "CMD_SUCCESS", id |-> hd.msg.id,
                                info |-> CmdLogInfo(hd),
                                responseLength |-> Len(hd.response)]), h, "done")
          [] hd.pc = "err" ->
                SetPc(Log(st1, h, [event |-> "CMD_ERROR", id |-> hd.msg.id,
                                info |-> CmdLogInfo(hd), error |-> hd.error]), h, "done")
          [] hd.pc = "v_ack" -> SetPc(st1, h, "v_dl")
          [] hd.pc = "v_fail" ->
                SetPc(Log(st1, h, [event |-> "VOICE_ERROR", id |-> hd.msg.id,
                                info |-> VoiceLogInfo(hd), error |-> hd.error]), h, "done")
          [] hd.pc = "v_conf" -> VoiceDispatch(st1, h)
          [] hd.pc = "v_final" ->
                SetPc(Log(st1, h, [event |-> "VOICE_SUCCESS", id |-> hd.msg.id,
                                info |-> VoiceLogInfo(hd),
                                responseLength |-> Len(hd.response)]), h, "done")
          [] hd.pc = "v_err" ->
                SetPc(Log(st1, h, [event |-> "VOICE_CMD_ERROR", id |-> hd.msg.id,
                                info |-> VoiceLogInfo(hd), error |-> hd.error]), h, "done")
          [] OTHER -> st1

\* handleVoiceMessage after `await msg.downloadMedia()`
OnMedia(st, h, outcome) ==
    CASE outcome = "ok" ->
            SetPc(CallBridge(st, h, "transcribe",
                             [name |-> "audio_path", value |-> <<"voice.ogg">>]), h, "v_tr")
      [] outcome = "null" -> VoiceFail(st, h, <<"Failed to download voice message">>)
      [] OTHER -> VoiceFail(st, h, <<"download error">>)

\* ---------------------------------------------------- inbound messages

TextMsg(from, fromMe, author, body, quoted) ==
    [id |-> 0, from |-> from, remote |-> from, author |-> author, fromMe |-> fromMe,
     type |-> "chat", hasMedia |-> FALSE, body |-> body, hasQuotedMsg |-> quoted]

VoiceMsg(from, fromMe, author) ==
    [id |-> 0, from |-> from, remote |-> from, author |-> author, fromMe |-> fromMe,
     type |-> "ptt", hasMedia |-> TRUE, body |-> Empty, hasQuotedMsg |-> FALSE]

BodyHelp ==
    <<"/", "h", "e", "l", "p">>

BodyStatus ==
    <<"/", "s", "t", "a", "t", "u", "s">>

BodyPlain ==
    <<"h", "i">>

BodyMarked ==
    <<ECheck, " ", "o", "k">>

\* what the chat client may deliver, before an id is given to it
Templates ==
    {TextMsg(SelfId, TRUE, Empty, BodyHelp, FALSE),
     TextMsg(SelfId, TRUE, Empty, BodyStatus, FALSE),
     TextMsg(SelfId, TRUE, Empty, BodyPlain, FALSE),
     TextMsg(SelfId, TRUE, Empty, BodyPlain, TRUE),
     TextMsg(SelfId, TRUE, Empty, BodyMarked, FALSE),
     VoiceMsg(SelfId, TRUE, Empty),
     [VoiceMsg(SelfId, TRUE, Empty) EXCEPT !.hasQuotedMsg = TRUE],
     TextMsg(SelfId, FALSE, Empty, BodyStatus, FALSE),
     VoiceMsg(SelfId, FALSE, Empty)}

\* inbound ids seen so far are 1..n: a delivery repeats one or brings n + 1
DeliverableIds ==
    1..(Cardinality({delivered[i] : i \in 1..Len(delivered)}) + 1)

\* the message_create event of a message the relay sent with msg.reply:
\* own message, same chat, quoting the message replied to
EchoMsg(r) ==
    LET src == handlers[r.h].msg
    IN  [id |-> r.id, from |-> src.from, remote |-> src.remote,
         author |-> Empty, fromMe |-> TRUE, type |-> "chat", hasMedia |-> FALSE,
         body |-> r.text, hasQuotedMsg |-> TRUE]

PutReply(st, r, r2) ==
    [st EXCEPT !.o = (@ \ {r}) \cup {r2}]

\* ------------------------------------------------------------- actions

RelayConfigs ==
    {[allowedGroupId |-> Empty, allowedNumber |-> Empty]}

Init ==
    /\ CONFIG \in RelayConfigs
    /\ RelayInit
    /\ audit = <<>>
    /\ authIn = <<>>
    /\ authOut = FALSE

Fixed ==
    UNCHANGED <<CONFIG, authIn, authOut, textIn, textOut, auditWritable, relay>>

StartsHandler(msg) ==
    Len(MessageCreate(Cur, msg).h) > Len(handlers)

\* the chat client emits message_create for an inbound message
Deliver(msg) ==
    /\ relay = "ready"
    /\ Len(delivered) < MaxDeliveries
    /\ StartsHandler(msg) => Len(handlers) < MaxHandlers
    /\ delivered' = Append(delivered, msg.id)
    /\ Commit(MessageCreate(Cur, msg))
    /\ Fixed

\* the chat client emits message_create for one of the relay's own replies
Echo(r) ==
    /\ relay = "ready"
    /\ ~r.echoed
    /\ Commit(MessageCreate(PutReply(Cur, r, [r EXCEPT !.echoed = TRUE]), EchoMsg(r)))
    /\ UNCHANGED delivered
    /\ Fixed

\* `await msg.reply(...)` resolves with the sent message
ReplyAck(r) ==
    /\ relay = "ready"
    /\ ~r.acked
    /\ Commit(OnReplyAck(PutReply(Cur, r, [r EXCEPT !.acked = TRUE]), r))
    /\ UNCHANGED delivered
    /\ Fixed

\* `await msg.downloadMedia()` settles
MediaDone(h, outcome) ==
    /\ relay = "ready"
    /\ handlers[h].pc = "v_dl"
    /\ Commit(OnMedia(Cur, h, outcome))
    /\ UNCHANGED delivered
    /\ Fixed

\* a call without the second 'close' listener: the timer stays as it is
TimerKeptAfterClose(c) ==
    c.timer

\* proc.on('close', () => clearTimeout(timer))
TimerAfterClose(c) ==
    FALSE

\* the worker's 'close' event: settle by exit code, then clearTimeout(timer)
ProcClose(c, exit) ==
    /\ relay = "ready"
    /\ c.proc = "running"
    /\ c.killed <=> (exit = ExitKilled)
    /\ Commit(Settle(PutCall(Cur, c, [Settled(c, CloseResult(exit))
                                        EXCEPT !.proc = "closed", !.timer = TimerAfterClose(c),
                                               !.exit = <<exit>>]),
                     c, CloseResult(exit)))
    /\ UNCHANGED delivered
    /\ Fixed

\* the worker's 'error' event (it could not be spawned): reject(err)
ProcError(c) ==
    /\ relay = "ready"
    /\ c.proc = "running"
    /\ ~c.killed
    /\ Commit(Settle(PutCall(Cur, c, [Settled(c, SpawnFailed) EXCEPT !.proc = "failed"]),
                     c, SpawnFailed))
    /\ UNCHANGED delivered
    /\ Fixed

\* the timer of callBridge fires: proc.kill(); reject('Operation timed out')
TimerFire(c) ==
    /\ relay = "ready"
    /\ c.timer
    /\ Commit(Settle(PutCall(Cur, c, [Settled(c, TimedOut)
                                        EXCEPT !.killed = TRUE, !.timer = FALSE]),
                     c, TimedOut))
    /\ UNCHANGED delivered
    /\ Fixed

Next ==
    \/ \E t \in Templates, i \in DeliverableIds : Deliver([t EXCEPT !.id = i])
    \/ \E r \in outbox : Echo(r)
    \/ \E r \in outbox : ReplyAck(r)
    \/ \E h \in 1..Len(handlers), o \in {"ok", "null", "throw"} : MediaDone(h, o)
    \/ \E c \in calls, e \in WorkerExits \cup {ExitKilled} : ProcClose(c, e)
    \/ \E c \in calls : ProcError(c)
    \/ \E c \in calls : TimerFire(c)

Spec ==
    Init /\ [][Next]_vars

\* the timers of Node's event loop: an armed timer that is not cleared fires
CallIds ==
    {10 * h + k : h \in 1..MaxHandlers, k \in 1..2}

TimerFairness ==
    \A id \in CallIds : WF_vars(\E c \in calls : c.id = id /\ TimerFire(c))

SpecLive ==
    Init /\ [][Next]_vars /\ TimerFairness

\* ------------------------------------------------------- the handler gates

HandlerIds ==
    1..Len(handlers)

DeliveredIds ==
    {delivered[i] : i \in 1..Len(delivered)}

\* C5: a message for which authorization returns false gets no handler, so no
\* bridge call and no reply of any kind: every handler, every bridge call and
\* every reply belongs to a message that isAuthorized accepts.
C5_DeniedSilentDrop ==
    /\ \A h \in HandlerIds : isAuthorized(handlers[h].msg)
    /\ \A c \in calls : c.h \in HandlerIds /\ isAuthorized(handlers[c.h].msg)
    /\ \A r \in outbox : r.h \in HandlerIds /\ isAuthorized(handlers[r.h].msg)

\* a denied text message and a denied voice message were delivered: each left
\* its AUTH_REJECT line and nothing else
Dropped(id) ==
    /\ id \in DeliveredIds
    /\ \A h \in HandlerIds : handlers[h].msg.id # id
    /\ \A r \in outbox : handlers[r.h].msg.id # id
    /\ \A c \in calls : handlers[c.h].msg.id # id

C5_Witness ==
    \E i, j \in 1..Len(audit) :
        /\ audit[i].event = "AUTH_REJECT" /\ ~audit[i].info.hasMedia
        /\ audit[j].event = "AUTH_REJECT" /\ audit[j].info.hasMedia
        /\ Dropped(audit[i].id)
        /\ Dropped(audit[j].id)

\* C6: the message_create event of a reply the relay sent never starts a
\* handler (so no bridge call and no further reply comes from it), whether
\* the event arrives before or after the reply's id is put in sentReplies.
C6_EchoNeverDispatched ==
    \A h \in HandlerIds : \A r \in outbox : handlers[h].msg.id # r.id

\* the echo of a reply without a response marker arrived before its id was
\* recorded in sentReplies
C6_Witness ==
    \E r \in outbox :
        /\ r.echoed
        /\ ~r.acked
        /\ ~SetHas(sentReplies, r.id)
        /\ ~isBotResponse(r.text)

\* C7: each of the two dedup sets holds at most the cap in every state.
C7_SetsWithinCap ==
    /\ Len(processedMessages) <= DedupCap
    /\ Len(sentReplies) <= DedupCap

\* C8: a delivery of an id that is still in processedMessages changes nothing:
\* no audit line (of isAuthorized or of a handler), no handler, no bridge call,
\* no reply, and the dedup sets stay as they are.
C8_RedeliveryDropped ==
    [][(/\ delivered' # delivered
        /\ SetHas(processedMessages, delivered'[Len(delivered')]))
       => UNCHANGED <<processedMessages, sentReplies, handlers, calls, outbox,
                      audit>>]_vars

\* an id was delivered a second time while the handler of its first delivery
\* was suspended at an await
C8_Witness ==
    /\ Len(delivered) = 2
    /\ delivered[1] = delivered[2]
    /\ SetHas(processedMessages, delivered[2])
    /\ \E h \in HandlerIds :
          /\ handlers[h].msg.id = delivered[2]
          /\ handlers[h].pc \in {"bridge", "v_dl", "ack"}

\* the ids put into sentReplies so far, and into processedMessages so far
InsertedSent ==
    {r.id : r \in {x \in outbox : x.acked}}

InsertedProcessed ==
    DeliveredIds \cup {r.id : r \in {x \in outbox : x.echoed}}

Found(set, ids) ==
    Cardinality({id \in ids : SetHas(set, id)})

\* C9: after cap + k distinct ids were inserted into a dedup set, exactly k of
\* them are no longer found and cap of them are; with fewer than cap inserted
\* all are found.  For processedMessages and for sentReplies.
C9_EvictsOldest ==
    LET Kept(n) == IF n < DedupCap THEN n ELSE DedupCap
    IN  /\ Found(processedMessages, InsertedProcessed)
              = Kept(Cardinality(InsertedProcessed))
        /\ Found(sentReplies, InsertedSent) = Kept(Cardinality(InsertedSent))

\* ---------------------------------------------------------- the call timer

HasCall(id) ==
    \E c \in calls : c.id = id

WorkerExited(id) ==
    \E c \in calls : c.id = id /\ c.proc \in {"closed", "failed"} /\ c.result # <<TimedOut>>

TimeoutAndKill(id) ==
    \E c \in calls : c.id = id /\ c.killed /\ c.result = <<TimedOut>>

\* C10: with the timers fair, every bridge call whose worker does not exit
\* eventually returns the timeout error, with a kill sent to the worker.
C10_TimeoutEventually ==
    \A id \in CallIds : HasCall(id) ~> (WorkerExited(id) \/ TimeoutAndKill(id))

\* a call returned the timeout error while its worker was still running,
\* and the worker was sent the kill
C10_Witness ==
    \E c \in calls :
        /\ c.result = <<TimedOut>>
        /\ c.killed
        /\ c.proc = "running"
        /\ ~c.timer

\* ------------------------------------------------------------ bridge calls

CallsOf(h) ==
    {c \in calls : c.h = h}

FailedCallsOf(h) ==
    {c \in CallsOf(h) : c.result # <<>> /\ ~c.result[1].ok}

\* C11: the handler of a text message issues at most one bridge call; when
\* that call fails the handler sends the error reply for it and issues no
\* other call.
C11_NoRetries ==
    \A h \in HandlerIds :
        ~IsVoice(handlers[h].msg) =>
            /\ Cardinality(CallsOf(h)) <= 1
            /\ \A c \in FailedCallsOf(h) :
                  /\ handlers[h].pc \in {"err", "done"}
                  /\ \E r \in outbox :
                        r.h = h /\ r.text = ErrorText(c.result[1].message)

\* a text command ended after its only bridge call failed and the error
\* reply was sent
C11_Witness ==
    \E h \in HandlerIds :
        /\ ~IsVoice(handlers[h].msg)
        /\ handlers[h].pc = "done"
        /\ Cardinality(CallsOf(h)) = 1
        /\ FailedCallsOf(h) # {}
        /\ \E r \in outbox : r.h = h /\ r.acked /\ StartsWith(r.text, <<ECross>>)

\* the bridge call the switch on cmd.type makes for a parsed command
\* (<<>> for a command answered without the bridge)
BridgeRequest(cmd) ==
    CASE cmd.type \in {"status", "stop", "continue", "pwd", "sessions"} ->
            <<[command |-> cmd.type, arg |-> NoArg]>>
      [] cmd.type = "approve" ->
            <<[command |-> "approve", arg |-> [name |-> "value", value |-> cmd.content]]>>
      [] cmd.type \in {"api", "claude-code"} ->
            <<[command |-> cmd.type, arg |-> [name |-> "prompt", value |-> cmd.content]]>>
      [] cmd.type = "cd" /\ cmd.content # Empty ->
            <<[command |-> "cd", arg |-> [name |-> "path", value |-> cmd.content]]>>
      [] OTHER -> <<>>

RequestOf(c) ==
    <<[command |-> c.command, arg |-> c.arg]>>

\* the calls a voice handler makes after the transcription
VoiceCommandCalls ==
    {c \in calls : IsVoice(handlers[c.h].msg) /\ c.command # "transcribe"}

\* C12 as stated: the call made for a transcribed text is the call the same
\* text would get as a text message (parseCommand, then the switch).
C12_VoiceTextParsed ==
    \A c \in VoiceCommandCalls :
        RequestOf(c) = BridgeRequest(parseCommand(handlers[c.h].cmd.content))

\* C12 amended: the transcribed text is not parsed; it is always sent as the
\* prompt of a claude-code call, whatever command it would parse to, and a
\* voice handler makes no other call after the transcription.
C12_VoiceTextToClaudeCode ==
    /\ \A c \in VoiceCommandCalls :
          /\ c.command = "claude-code"
          /\ c.arg = [name |-> "prompt", value |-> handlers[c.h].cmd.content]
    /\ \A h \in HandlerIds :
          (IsVoice(handlers[h].msg) /\ handlers[h].pc = "v_cc") =>
              \E c \in VoiceCommandCalls : c.h = h

\* a transcription that parses to another command ("yes": approve) was sent
\* to the bridge
C12_Witness ==
    \E c \in VoiceCommandCalls :
        /\ handlers[c.h].cmd.content # Empty
        /\ parseCommand(handlers[c.h].cmd.content).type # "claude-code"

\* ---------------------------------------------------- bridge call results

\* calls whose worker has exited, by the exit code
ExitedCalls ==
    {c \in calls : c.exit # <<>>}

NonZeroExits ==
    {c \in ExitedCalls : c.exit[1].code # 0}

ZeroExits ==
    {c \in ExitedCalls : c.exit[1].code = 0}

\* C13 as stated: after a non-zero (or null) exit the call has returned an
\* error whose detail is what the worker wrote to stderr.
C13_NonZeroExitStderr ==
    \A c \in NonZeroExits : c.result = <<Rejected(c.exit[1].stderr)>>

\* C13 amended: after a non-zero (or null) exit the call has returned an
\* error, never a success built from stdout; its detail is the captured
\* stderr when there is any, 'Bridge exited with code <code>' when there is
\* none, and the timeout error when the timer had already ended the call.
C13_NonZeroExitError ==
    \A c \in NonZeroExits :
        /\ c.result # <<>>
        /\ ~c.result[1].ok
        /\ c.killed => c.result = <<TimedOut>>
        /\ ~c.killed =>
              c.result[1].message =
                  (IF c.exit[1].stderr # Empty THEN c.exit[1].stderr
                   ELSE <<"Bridge exited with code ", ToString(c.exit[1].code)>>)

\* a worker that wrote to stdout and to stderr exited with a non-zero code
C13_Witness ==
    \E c \in NonZeroExits :
        /\ c.exit[1].stdout.raw # Empty
        /\ c.exit[1].stderr # Empty
        /\ c.result = <<Rejected(c.exit[1].stderr)>>

\* C14: after an exit with code 0 and output that is not a structured object,
\* the call has succeeded with the raw output, trimmed, as its result text.
C14_RawFallback ==
    \A c \in ZeroExits :
        c.exit[1].stdout.kind # "object" =>
            c.result = <<Resolved(Trim(c.exit[1].stdout.raw), Empty)>>

\* the positions where a handler waits for callBridge to settle
AwaitingBridge ==
    {"bridge", "v_tr", "v_cc"}

\* C15: a call whose worker could not be started has returned the spawn
\* error to its caller: the result is an error, not a success, and the
\* handler that made the call is no longer waiting for it.
C15_SpawnFailureError ==
    \A c \in calls :
        c.proc = "failed" =>
            /\ c.result # <<>>
            /\ ~c.result[1].ok
            /\ c.result[1].message = <<"spawn python3 ENOENT">>
            /\ handlers[c.h].pc \notin AwaitingBridge

\* the caller of a call that could not be started got the error and went on
\* to report it
C15_Witness ==
    \E c \in calls :
        /\ c.proc = "failed"
        /\ handlers[c.h].pc \in {"err", "v_fail", "v_err"}
        /\ handlers[c.h].error = <<"spawn python3 ENOENT">>

\* ------------------------------------------------------ failure reports

\* the handler has ended: it returned, or it threw outside every try block
Finished(h) ==
    handlers[h].pc \in {"done", "threw"}

\* a bridge call of the handler was rejected or returned a result that
\* reports an error, or the media download or the transcription failed
MetFailure(h) ==
    \/ \E c \in CallsOf(h) :
          c.result # <<>> /\ (~c.result[1].ok \/ c.result[1].error # Empty)
    \/ handlers[h].error # Empty

ErrorReplies(h) ==
    {r \in outbox : r.h = h /\ StartsWith(r.text, <<ECross>>)}

EventsOf(h, names) ==
    {i \in 1..Len(handlers[h].log) : handlers[h].log[i].event \in names}

FailureEvents ==
    {"CMD_ERROR", "VOICE_ERROR", "VOICE_CMD_ERROR"}

SuccessEvents ==
    {"CMD_SUCCESS", "VOICE_SUCCESS"}

\* C16: a handler that met a failure ends with exactly one error reply and
\* exactly one failure event in the audit log, and with no success event.
C16_FailureReportedOnce ==
    \A h \in HandlerIds :
        (Finished(h) /\ MetFailure(h)) =>
            /\ Cardinality(ErrorReplies(h)) = 1
            /\ Cardinality(EventsOf(h, FailureEvents)) = 1
            /\ EventsOf(h, SuccessEvents) = {}

\* ------------------------------------------------- audit log free text

\* s has a match of /<prefix>[<class>]+/
Matches(s, prefix, class) ==
    \E i \in 0..Len(s) :
        /\ StartsWith(Slice(s, i), prefix)
        /\ RunLen(Slice(s, i + Len(prefix)), class) > 0

HasSecret(s) ==
    \/ Matches(s, <<"s", "k", "-", "a", "n", "t", "-">>, Alnum \cup {"-"})
    \/ Matches(s, <<"B", "e", "a", "r", "e", "r", " ">>, Alnum \cup {"-", "_", "."})

\* at most the maximum length plus the truncation marker, and no secret
Sanitized(s) ==
    Len(s) <= sanitizeMaxLength + 1 /\ ~HasSecret(s)

\* the free-text fields of an audit-log line
FreeText(e) ==
    (IF "info" \in DOMAIN e /\ "content" \in DOMAIN e.info
     THEN {e.info.content} ELSE {})
    \cup (IF "transcribedContent" \in DOMAIN e THEN {e.transcribedContent} ELSE {})
    \cup (IF "error" \in DOMAIN e THEN {e.error} ELSE {})

\* C17: every free-text field of every audit-log line is sanitized.
C17_AuditTextSanitized ==
    \A h \in HandlerIds : \A i \in 1..Len(handlers[h].log) :
        \A s \in FreeText(handlers[h].log[i]) : Sanitized(s)

\* ------------------------------------------------------ denial reasons

DenialReasons ==
    {"wrong_group", "wrong_sender", "empty_author", "not_from_self",
     "group_without_policy"}

\* C18: every denial by isAuthorized appends exactly one AUTH_REJECT line,
\* and the line carries one of the five reasons.
C18_DenialLoggedOnce ==
    (authIn # <<>> /\ ~authOut) =>
        /\ Len(audit) = 1
        /\ audit[1].event = "AUTH_REJECT"
        /\ audit[1].reason \in DenialReasons

\* ------------------------------------------------------- reply tracking

RepliesOf(h) ==
    {r \in outbox : r.h = h}

\* C19: in the step in which the send of a reply is acknowledged (the handler
\* resumes after `await msg.reply`), the reply's id is put in sentReplies:
\* it is there when the handler reaches its next await or returns.
C19_ReplyIdRecorded ==
    [][\A r \in outbox :
          (~r.acked /\ [r EXCEPT !.acked = TRUE] \in outbox')
              => SetHas(sentReplies', r.id)]_vars

\* a voice message was answered with its three replies (transcription
\* status, confirmation, final response), all acknowledged and recorded
C19_Witness ==
    \E h \in HandlerIds :
        /\ IsVoice(handlers[h].msg)
        /\ handlers[h].pc = "done"
        /\ Cardinality(RepliesOf(h)) = 3
        /\ \A r \in RepliesOf(h) : r.acked /\ SetHas(sentReplies, r.id)

\* ------------------------------------------------------- quoted replies

\* C20: a message flagged as a quoted reply never gets a handler (so no
\* command is parsed, no bridge call made and no reply sent for it), text
\* or voice.
C20_QuotedSkipped ==
    \A h \in HandlerIds : ~handlers[h].msg.hasQuotedMsg

\* -------------------------------------- one text, one function at a time

PrefixCc ==
    <<"/", "c", "c", " ">>

PrefixAsk ==
    <<"/", "a", "s", "k", " ">>

\* arguments as the tests give them: shell text, unicode, several lines
Arguments ==
    {<<"x">>, <<" ", "x">>, <<"$", "(", "r", "m", " ", "-", "r", "f", " ", "/", ")">>,
     <<"u:4fee", "u:590d", " ", "emoji:bug">>, <<"l", "1", "\n", "l", "2">>,
     <<"Y", "e", "s">>, <<"/", "h", "e", "l", "p">>}

PrefixedTexts ==
    {p \o a : p \in {PrefixCc, PrefixAsk}, a \in Arguments}
        \cup {<<"/", "c", "c">>, <<"/", "a", "s", "k">>}

SlashTexts ==
    {BodyHelp, BodyStatus, <<"/", "s", "t", "o", "p">>,
     <<"/", "g", "r", "o", "u", "p", "i", "d">>, <<"/", "c", "d">>,
     <<"/", "c", "d", " ", " ", "x">>, <<"/", "p", "w", "d">>,
     <<"/", "s", "e", "s", "s", "i", "o", "n", "s">>,
     <<"/", "c", "l", "e", "a", "r">>, BodyHelp \o <<"m", "e">>}

YesWords ==
    {<<"1">>, <<"y", "e", "s">>, <<"a", "p", "p", "r", "o", "v", "e">>}

NoWords ==
    {<<"2">>, <<"n", "o">>, <<"r", "e", "j", "e", "c", "t">>}

ContinueWords ==
    {<<"c", "o", "n", "t", "i", "n", "u", "e">>}

UpperTok(t) ==
    IF \E i \in 1..26 : LowerCase[i] = t
    THEN UpperCase[CHOOSE i \in 1..26 : LowerCase[i] = t]
    ELSE t

ToUpperCase(s) ==
    [i \in 1..Len(s) |-> UpperTok(s[i])]

Capitalized(s) ==
    [i \in 1..Len(s) |-> IF i = 1 THEN UpperTok(s[i]) ELSE s[i]]

\* the words in three spellings, with text after them, and digits side by side
WordTexts ==
    LET words == YesWords \cup NoWords \cup ContinueWords
    IN  words \cup {ToUpperCase(w) : w \in words}
              \cup {Capitalized(w) : w \in words}
              \cup {w \o <<" ", "p", "l", "e", "a", "s", "e">> : w \in words}
              \cup {<<"1", "2">>, <<"2", "1">>, <<"y", "e", "s", "n", "o">>}

PlainTexts ==
    {Empty, BodyPlain,
     <<"f", "i", "x", " ", "t", "h", "e", " ", "b", "u", "g">>,
     <<"F", "i", "x", " ", "I", "T">>,
     <<"u:4fee", "u:590d", " ", "emoji:bug">>,
     <<"l", "1", "\n", "l", "2">>, <<"a", ";", "b", "|", "c", "&">>,
     <<"o", "k", " ", ECheck>>}

MarkerGlyphs ==
    {ERobot, EChart, EStop, EGear, EThink, ECross, EPin, ECheck}

MarkedTexts ==
    {<<m>> : m \in MarkerGlyphs} \cup {<<m, " ", "o", "k">> : m \in MarkerGlyphs}
        \cup {NoVisibleResponse, NoVisibleResponse \o <<")">>, HelpTitle,
              <<"s", "e", "e", " ">> \o HelpTitle \o <<"\n", "x">>}

\* texts around CONFIG.maxResponseLength
LongTexts ==
    {[i \in 1..n |-> IF i = 1 THEN "s" ELSE IF i > maxResponseLength THEN "z" ELSE "a"] :
        n \in (maxResponseLength - 1)..(maxResponseLength + 2)}

Padded(c) ==
    {c, <<" ">> \o c, c \o <<" ">>, <<"\n", " ">> \o c \o <<"\t">>}

\* bodies of chat messages
Bodies ==
    UNION {Padded(c) : c \in PrefixedTexts \cup SlashTexts \cup WordTexts
                              \cup PlainTexts \cup MarkedTexts}

Texts ==
    Bodies \cup UNION {Padded(c) : c \in LongTexts}

TextIdle ==
    /\ relay = "ready"
    /\ textIn = <<>>

\* parseCommand(s) on its own
ParseText(s) ==
    /\ TextIdle
    /\ textIn' = <<s>>
    /\ textOut' = [fn |-> "parseCommand", value |-> parseCommand(s)]
    /\ UNCHANGED <<CONFIG, relayVars, audit, authIn, authOut, auditWritable, relay>>

\* formatResponse(s) on its own
FormatText(s) ==
    /\ TextIdle
    /\ textIn' = <<s>>
    /\ textOut' = [fn |-> "formatResponse", value |-> formatResponse(s)]
    /\ UNCHANGED <<CONFIG, relayVars, audit, authIn, authOut, auditWritable, relay>>

\* message_create for a text message in the own chat, with a new id and both
\* dedup sets empty
HandleText(s) ==
    /\ TextIdle
    /\ textIn' = <<s>>
    /\ textOut' = [fn |-> "message_create", value |-> Empty]
    /\ delivered' = <<1>>
    /\ Commit(MessageCreate(Cur, [TextMsg(SelfId, TRUE, Empty, s, FALSE) EXCEPT !.id = 1]))
    /\ UNCHANGED <<CONFIG, authIn, authOut, auditWritable, relay>>

NextText ==
    \/ \E s \in Texts : ParseText(s)
    \/ \E s \in Texts : FormatText(s)
    \/ \E s \in Bodies : HandleText(s)

SpecText ==
    Init /\ [][NextText]_vars

Applied(fn) ==
    textIn # <<>> /\ textOut.fn = fn

\* ------------------------------------------------------ the marker skip

\* the body begins with one of the markers or holds the help title
CarriesMarker(body) ==
    \/ body # <<>> /\ body[1] \in MarkerGlyphs
    \/ StartsWith(body, NoVisibleResponse)
    \/ IncludesSeq(body, HelpTitle)

\* C21: a text message whose body begins with a marker, or holds the help
\* title, is skipped without a bridge call and without a reply although its
\* id was in neither dedup set; a body without any marker is not skipped
C21_MarkedTextSkipped ==
    Applied("message_create") =>
        /\ processedMessages = <<1>>
        /\ IF CarriesMarker(textIn[1])
           THEN handlers = <<>> /\ calls = {} /\ outbox = {}
           ELSE Len(handlers) = 1 /\ handlers[1].msg.body = textIn[1]

C21_Witness ==
    /\ Applied("message_create")
    /\ textIn[1] = <<"s", "e", "e", " ">> \o HelpTitle \o <<"\n", "x">>
    /\ processedMessages = <<1>>
    /\ handlers = <<>>
    /\ outbox = {}

\* ------------------------------------------------------ the parser alone

\* the command types parseCommand returns
CommandTypes ==
    {"claude-code", "api", "status", "stop", "help", "groupid", "cd", "pwd",
     "sessions", "approve", "continue"}

IsText(v) ==
    DOMAIN v = 1..Len(v)

\* C22: parseCommand is total: every text, the empty one and the longest one
\* included, yields a command of one of its types with a text as content
C22_ParseTotal ==
    Applied("parseCommand") =>
        /\ textOut.value.type \in CommandTypes
        /\ IsText(textOut.value.content)

C22_Witness ==
    /\ Applied("parseCommand")
    /\ textIn[1] = <<"\n", " ", "\t">>
    /\ textOut.value = [type |-> "claude-code", content |-> Empty]

\* the slash prefixes of the command table (README.md, Commands)
CommandPrefixes ==
    {PrefixCc, PrefixAsk, BodyStatus, BodyHelp, <<"/", "s", "t", "o", "p">>,
     <<"/", "g", "r", "o", "u", "p", "i", "d">>, <<"/", "c", "d", " ">>,
     <<"/", "p", "w", "d">>, <<"/", "s", "e", "s", "s", "i", "o", "n", "s">>,
     <<"/", "c", "l", "e", "a", "r">>}

HasCommandPrefix(t) ==
    \/ \E p \in CommandPrefixes : StartsWith(t, p)
    \/ t = <<"/", "c", "d">>

\* the whole text is one of the words, in any case
IsOneOf(t, words) ==
    \E w \in words : ToUpperCase(t) = ToUpperCase(w)

\* no command prefix and no approve / reject / continue word
PrefixFree(s) ==
    /\ ~HasCommandPrefix(Trim(s))
    /\ ~IsOneOf(Trim(s), YesWords \cup NoWords \cup ContinueWords)

\* C23, as claimed: a text without command prefix and without approval word
\* parses to claude-code with a content identical to the text
C23_PassthroughIdentical ==
    (Applied("parseCommand") /\ PrefixFree(textIn[1])) =>
        textOut.value = [type |-> "claude-code", content |-> textIn[1]]

\* C23, amended: a text without command prefix and without approval word
\* parses to claude-code, and the content is the text without the whitespace
\* at its two ends, every other token kept as it is
C23_PassthroughTrimmed ==
    (Applied("parseCommand") /\ PrefixFree(textIn[1])) =>
        textOut.value = [type |-> "claude-code", content |-> Trim(textIn[1])]

C23_Witness ==
    /\ Applied("parseCommand")
    /\ textIn[1] = <<"\n", " ", "l", "1", "\n", "l", "2", "\t">>
    /\ textOut.value = [type |-> "claude-code", content |-> <<"l", "1", "\n", "l", "2">>]

\* C24: after "/cc " and after "/ask " the argument is the rest of the trimmed
\* text, token for token: shell text, unicode, newlines and inner whitespace
\* are neither interpreted nor removed
C24_ArgumentIsRemainder ==
    Applied("parseCommand") =>
        LET t == Trim(textIn[1])
        IN  /\ StartsWith(t, PrefixCc) =>
                 textOut.value = [type |-> "claude-code", content |-> SubSeq(t, 5, Len(t))]
            /\ StartsWith(t, PrefixAsk) =>
                 textOut.value = [type |-> "api", content |-> SubSeq(t, 6, Len(t))]

C24_Witness ==
    /\ Applied("parseCommand")
    /\ textIn[1] = <<" ">> \o PrefixAsk \o <<" ", "x">>
    /\ textOut.value = [type |-> "api", content |-> <<" ", "x">>]

\* C25: the approval and continue words count only when they are the whole
\* trimmed text, in any case: then the command is approve "yes", approve "no"
\* or continue; a text that only starts with a word ("yes please", "12") is
\* neither an approval nor a continue
C25_WordsWholeText ==
    Applied("parseCommand") =>
        LET t == Trim(textIn[1])
        IN  /\ IsOneOf(t, YesWords) =>
                 textOut.value = [type |-> "approve", content |-> <<"y", "e", "s">>]
            /\ IsOneOf(t, NoWords) =>
                 textOut.value = [type |-> "approve", content |-> <<"n", "o">>]
            /\ IsOneOf(t, ContinueWords) =>
                 textOut.value = [type |-> "continue", content |-> Empty]
            /\ ~IsOneOf(t, YesWords \cup NoWords \cup ContinueWords) =>
                 textOut.value.type \notin {"approve", "continue"}

C25_Witness ==
    /\ Applied("parseCommand")
    /\ textIn[1] = <<"\n", " ", "R", "E", "J", "E", "C", "T", "\t">>
    /\ textOut.value = [type |-> "approve", content |-> <<"n", "o">>]

C25_WitnessNotWhole ==
    /\ Applied("parseCommand")
    /\ textIn[1] = <<"y", "e", "s", " ", "p", "l", "e", "a", "s", "e">>
    /\ textOut.value = [type |-> "claude-code", content |-> textIn[1]]

\* C26: a text whose trimmed form starts with "/clear" parses to the clear
\* command: type "clear" with an empty content
C26_ClearParses ==
    (Applied("parseCommand") /\ StartsWith(Trim(textIn[1]), <<"/", "c", "l", "e", "a", "r">>)) =>
        textOut.value = [type |-> "clear", content |-> Empty]

\* ---------------------------------------------------- the formatter alone

\* C27: formatResponse gives "(empty response)" for an empty, null or
\* undefined text, the text itself when it is not longer than the maximum,
\* and otherwise its first maxResponseLength tokens followed by the
\* truncation mark: maxResponseLength + Len(TruncatedMark) tokens in all
C27_FormatResponse ==
    Applied("formatResponse") =>
        LET t   == textIn[1]
            out == textOut.value
        IN  IF t = Empty THEN out = EmptyResponse
            ELSE IF Len(t) <= maxResponseLength THEN out = t
            ELSE /\ Len(out) = maxResponseLength + Len(TruncatedMark)
                 /\ \A i \in 1..maxResponseLength : out[i] = t[i]
                 /\ \A j \in 1..Len(TruncatedMark) :
                        out[maxResponseLength + j] = TruncatedMark[j]

C27_Witness ==
    /\ Applied("formatResponse")
    /\ Len(textIn[1]) = maxResponseLength + 2
    /\ textIn[1][1] = "s"
    /\ Len(textOut.value) = maxResponseLength + Len(TruncatedMark)
    /\ textOut.value[maxResponseLength] = "a"
    /\ textOut.value[maxResponseLength + 1] = "\n"

\* ------------------------------------------- bridge calls side by side

\* handlers that may be between their first and their last await at once
MaxOverlap ==
    2

OverlapTemplates ==
    {TextMsg(SelfId, TRUE, Empty, BodyStatus, FALSE),
     TextMsg(SelfId, TRUE, Empty, BodyPlain, FALSE)}

\* message_create while earlier handlers are still waiting
DeliverOverlap(msg) ==
    /\ relay = "ready"
    /\ Len(delivered) < MaxDeliveries
    /\ StartsHandler(msg) => Len(handlers) < MaxOverlap
    /\ delivered' = Append(delivered, msg.id)
    /\ Commit(MessageCreate(Cur, msg))
    /\ Fixed

NextOverlap ==
    \/ \E t \in OverlapTemplates, i \in DeliverableIds : DeliverOverlap([t EXCEPT !.id = i])
    \/ \E r \in outbox : Echo(r)
    \/ \E r \in outbox : ReplyAck(r)
    \/ \E c \in calls, e \in WorkerExits \cup {ExitKilled} : ProcClose(c, e)
    \/ \E c \in calls : ProcError(c)
    \/ \E c \in calls : TimerFire(c)

SpecOverlap ==
    Init /\ [][NextOverlap]_vars

\* what the worker of call c, and nothing else, makes of the call
OwnOutcome(c) ==
    IF c.proc = "failed" THEN SpawnFailed
    ELSE IF c.killed THEN TimedOut
    ELSE CloseResult(c.exit[1])

\* C28: calls are paired one to one with results: a handler waits for one
\* call at a time, a settled call holds the outcome of its own worker, and
\* the reply to a message carries the result of the call made for that
\* message, whatever the order in which the workers of two calls finish
C28_ResultsPaired ==
    /\ \A h \in 1..Len(handlers) : Cardinality({c \in CallsOf(h) : c.result = <<>>}) <= 1
    /\ \A c \in calls :
          c.result # <<>> =>
              LET res == c.result[1]
                  hd  == handlers[c.h]
              IN  /\ res = OwnOutcome(c)
                  /\ IF res.ok
                     THEN /\ hd.response = ResponseFor(hd.cmd, res)
                          /\ \E r \in RepliesOf(c.h) : r.text = formatResponse(hd.response)
                          /\ hd.error = Empty
                     ELSE /\ hd.error = res.message
                          /\ \E r \in RepliesOf(c.h) : r.text = ErrorText(res.message)
                          /\ hd.response = Empty

\* the call of the second message has finished and is answered while the call
\* of the first message is still in flight
C28_Witness ==
    \E c1, c2 \in calls :
        /\ c1.h = 1 /\ c2.h = 2
        /\ handlers[1].cmd.type # handlers[2].cmd.type
        /\ c1.proc = "running" /\ c1.result = <<>>
        /\ c2.exit = <<ExitOkRaw>>
        /\ \E r \in RepliesOf(2) :
               r.text = formatResponse(ResponseFor(handlers[2].cmd, CloseResult(ExitOkRaw)))
        /\ RepliesOf(1) \subseteq {r \in outbox : r.text = <<EGear, " Sending to Claude Code...">>}

\* both orders: the first call finished with one outcome, then the second
\* with another
C28_WitnessBoth ==
    \E c1, c2 \in calls :
        /\ c1.h = 1 /\ c2.h = 2
        /\ c1.exit = <<ExitFail>> /\ c2.exit = <<ExitOkJson>>
        /\ handlers[1].error = CloseResult(ExitFail).message
        /\ handlers[2].response = ResponseFor(handlers[2].cmd, CloseResult(ExitOkJson))

\* ------------------------------------------------ the timer after an exit

\* calls whose worker exited by itself, before the timer fired
ExitedInTime ==
    {c \in calls : c.exit # <<>> /\ c.exit[1] # ExitKilled}

\* C29: once the worker of a call has exited before the deadline, the timer
\* of that call is disarmed: no kill is sent to the worker afterwards, and the
\* call keeps the outcome of the exit and never gets the timeout error
C29_TimerDisarmedOnExit ==
    \A c \in ExitedInTime :
        /\ ~c.timer
        /\ ~c.killed
        /\ c.result = <<CloseResult(c.exit[1])>>
        /\ c.result # <<TimedOut>>
        /\ ~ENABLED TimerFire(c)

\* the worker exited in time and its handler has run to its end
C29_Witness ==
    \E c \in ExitedInTime :
        /\ c.exit = <<ExitOkJson>>
        /\ handlers[c.h].pc = "done"
        /\ ~c.killed

\* ------------------------------------------- the audit log out of order

\* what the start of the module finds at the log directory: it exists, or
\* mkdirSync creates it, or mkdirSync throws
LogDirOutcomes ==
    {"exists", "created", "throws"}

\* module load with the audit log enabled: existsSync(logDir), mkdirSync
\* outside any try block, so an exception ends the process
LoadModule(dir) ==
    /\ relay = "loading"
    /\ relay' = IF dir = "throws" THEN "crashed" ELSE "ready"
    /\ UNCHANGED <<CONFIG, relayVars, audit, authIn, authOut, textIn, textOut,
                   auditWritable>>

\* the storage of the audit log becomes unavailable, or available again
StorageChange ==
    /\ relay = "ready"
    /\ auditWritable' = ~auditWritable
    /\ UNCHANGED <<CONFIG, relayVars, audit, authIn, authOut, textIn, textOut, relay>>

InitAudit ==
    /\ CONFIG \in RelayConfigs
    /\ relay = "loading"
    /\ auditWritable \in BOOLEAN
    /\ textIn = <<>>
    /\ textOut = <<>>
    /\ processedMessages = <<>>
    /\ sentReplies = <<>>
    /\ handlers = <<>>
    /\ calls = {}
    /\ outbox = {}
    /\ delivered = <<>>
    /\ audit = <<>>
    /\ authIn = <<>>
    /\ authOut = FALSE

NextAudit ==
    \/ \E dir \in LogDirOutcomes : LoadModule(dir)
    \/ StorageChange
    \/ Next

SpecAudit ==
    InitAudit /\ [][NextAudit]_vars

\* the relay's state without the audit lines
WithoutLog(st) ==
    [p |-> st.p, s |-> st.s, c |-> st.c, o |-> st.o,
     h |-> [i \in 1..Len(st.h) |-> [st.h[i] EXCEPT !.log = <<>>]]]

Writable ==
    [Cur EXCEPT !.w = TRUE]

Unwritable ==
    [Cur EXCEPT !.w = FALSE]

\* every step a handler can take next gives the same sets, handlers, calls
\* and replies with a log that fails as with a log that works
SameWithoutLog ==
    /\ \A t \in Templates, i \in DeliverableIds :
          LET msg == [t EXCEPT !.id = i]
          IN  WithoutLog(MessageCreate(Unwritable, msg))
                  = WithoutLog(MessageCreate(Writable, msg))
    /\ \A r \in outbox :
          /\ ~r.echoed =>
                WithoutLog(MessageCreate(Unwritable, EchoMsg(r)))
                    = WithoutLog(MessageCreate(Writable, EchoMsg(r)))
          /\ ~r.acked =>
                WithoutLog(OnReplyAck(Unwritable, r)) = WithoutLog(OnReplyAck(Writable, r))
    /\ \A h \in 1..Len(handlers), o \in {"ok", "null", "throw"} :
          handlers[h].pc = "v_dl" =>
              WithoutLog(OnMedia(Unwritable, h, o)) = WithoutLog(OnMedia(Writable, h, o))
    /\ \A c \in calls, res \in {CloseResult(e) : e \in WorkerExits} \cup {SpawnFailed, TimedOut} :
          WithoutLog(Settle(Unwritable, c, res)) = WithoutLog(Settle(Writable, c, res))

\* C30: a failure to write the audit log, at the creation of its directory
\* or at an append, never ends the process and never changes what a handler
\* does: same bridge calls, same replies as with a working log
C30_AuditFailureAbsorbed ==
    /\ relay # "crashed"
    /\ SameWithoutLog

\* the part about appends: lines are missing from the log, and the handlers
\* go on as they would with a working log
C30_AppendFailureAbsorbed ==
    relay = "ready" => SameWithoutLog

\* a handler ran to its end while no line of it could be written
C30_AppendFailureSeen ==
    /\ ~auditWritable
    /\ \E h \in 1..Len(handlers) :
          /\ handlers[h].pc = "done"
          /\ handlers[h].log = <<>>
          /\ CallsOf(h) # {}
          /\ RepliesOf(h) # {}

\* ------------------------------------------------ replies that do not go out

SendFailed ==
    <<"send failed">>

\* `await msg.reply(...)` rejects: inside a try block the catch block takes
\* over, anywhere else the handler's promise is rejected
OnReplyFail(st, r) ==
    LET h   == r.h
        hd  == st.h[h]
        st1 == [st EXCEPT !.o = @ \ {r}]
    IN  CASE hd.pc \in {"ack", "final"} -> ErrorReply(st1, h, SendFailed)
          [] hd.pc = "v_final" ->
                SetPc(Reply([st1 EXCEPT !.h[h].error = SendFailed], h,
                            ErrorText(SendFailed)), h, "v_err")
          [] hd.pc \in {"err", "v_ack", "v_fail", "v_conf", "v_err"} ->
                SetPc([st1 EXCEPT !.h[h].error = SendFailed], h, "threw")
          [] OTHER -> st1

\* the chat client fails to send a reply the handler is waiting for
ReplyFail(r) ==
    /\ relay = "ready"
    /\ ~r.acked
    /\ ~r.echoed
    /\ Commit(OnReplyFail(Cur, r))
    /\ UNCHANGED delivered
    /\ Fixed

\* the rejected promise of an async listener: no 'unhandledRejection' handler
\* is installed, so Node (18+, README.md) ends the process
UnhandledRejection(h) ==
    /\ relay = "ready"
    /\ handlers[h].pc = "threw"
    /\ relay' = "crashed"
    /\ UNCHANGED <<CONFIG, relayVars, audit, authIn, authOut, textIn, textOut,
                   auditWritable>>

NextSend ==
    \/ Next
    \/ \E r \in outbox : ReplyFail(r)
    \/ \E h \in 1..Len(handlers) : UnhandledRejection(h)

SpecSend ==
    Init /\ [][NextSend]_vars

\* C31: no failure inside a handler ends the process: a failed bridge call
\* and a failed send of a reply, the error reply and the voice
\* acknowledgement included, are absorbed, and the relay stays up for the
\* messages that come later
C31_NoFatalFailure ==
    relay # "crashed"

\* the part that holds: a failed bridge call, and a failed send inside the
\* try block, end in the catch block
C31_Absorbed ==
    \E h \in 1..Len(handlers) :
        /\ handlers[h].pc = "done"
        /\ handlers[h].error = SendFailed
        /\ relay = "ready"

\* ------------------------------------------- a group without a sender

\* C32: with a group configured and no sender configured, every message whose
\* canonical conversation id is the group is authorized, whatever its sender
\* id, an empty or missing one included
C32_AnySenderInGroup ==
    (/\ authIn # <<>>
     /\ CONFIG.allowedGroupId # Empty
     /\ CONFIG.allowedNumber = Empty
     /\ canonicalConversationId(authIn[1]) = CONFIG.allowedGroupId) => authOut

\* the part that holds: decided on msg.from, the group lets every sender in
C32_AnySenderInFrom ==
    (/\ authIn # <<>>
     /\ CONFIG.allowedGroupId # Empty
     /\ CONFIG.allowedNumber = Empty
     /\ authIn[1].from = CONFIG.allowedGroupId) => authOut

\* ------------------------------------------------- "/status", end to end

\* handlers of the text message "/status"
StatusHandlers ==
    {h \in 1..Len(handlers) : ~IsVoice(handlers[h].msg) /\ handlers[h].msg.body = BodyStatus}

\* a "/status" message is authorized, parsed to status, makes one bridge call
\* "status" without fields, and is answered with the given text when the
\* worker of the call exits with {"response": "ok"}
StatusEndToEnd(text) ==
    \A h \in StatusHandlers :
        /\ isAuthorized(handlers[h].msg)
        /\ handlers[h].cmd = [type |-> "status", content |-> Empty]
        /\ \E c \in calls :
              /\ CallsOf(h) = {c}
              /\ RequestOf(c) = <<[command |-> "status", arg |-> NoArg]>>
              /\ c.exit = <<ExitOkStatus>> =>
                    \E r \in outbox : RepliesOf(h) = {r} /\ r.text = text

\* C33, as claimed: the reply equals "📊 Status\n\nok"
C33_StatusReplyPlain ==
    StatusEndToEnd(<<EChart, " Status", "\n", "\n", "o", "k">>)

\* C33, amended: the reply equals "📊 *Status*\n\nok", the title between the
\* asterisks of WhatsApp's bold
C33_StatusReplyBold ==
    StatusEndToEnd(<<EChart, " *Status*", "\n", "\n", "o", "k">>)

C33_Witness ==
    \E h \in StatusHandlers, c \in calls, r \in outbox :
        /\ handlers[h].pc = "done"
        /\ handlers[h].msg.fromMe /\ ~Includes(handlers[h].msg.from, "@g.us")
        /\ CallsOf(h) = {c} /\ c.command = "status" /\ c.exit = <<ExitOkStatus>>
        /\ RepliesOf(h) = {r} /\ r.acked
        /\ r.text = <<EChart, " *Status*", "\n", "\n", "o", "k">>

\* ------------------------------------------------ one result for each call

\* the calls for which an event arrives in this step after they were settled
LateEvents ==
    {c \in calls : c.result # <<>> /\ c \notin calls'}

\* C34: a call has one result, that of the first of exit, spawn error and
\* timer; an event that arrives for a call already settled (the exit of a
\* worker the timer killed, the timer after a spawn error) leaves the result
\* as it is and causes no reply and no audit line
C34_OneResultPerCall ==
    [][/\ \A c \in calls : c.result # <<>> =>
              \E c2 \in calls' : c2.id = c.id /\ c2.result = c.result
       /\ \A c \in calls' : Len(c.result) <= 1
       /\ LateEvents # {} =>
              /\ outbox' = outbox
              /\ handlers' = handlers
              /\ audit' = audit
              /\ sentReplies' = sentReplies]_vars

\* the timer fired after the spawn error: the handler has its one error reply
C34_WitnessSpawn ==
    \E c \in calls :
        /\ c.proc = "failed" /\ c.killed /\ c.result = <<SpawnFailed>>
        /\ Cardinality({r \in RepliesOf(c.h) : r.text = ErrorText(SpawnFailed.message)}) = 1
        /\ handlers[c.h].pc = "done"

\* the worker the timer killed has exited: the handler has its one error reply
C34_Witness ==
    \E c \in calls :
        /\ c.exit = <<ExitKilled>> /\ c.result = <<TimedOut>>
        /\ Cardinality({r \in RepliesOf(c.h) : r.text = ErrorText(c.result[1].message)}) = 1
        /\ handlers[c.h].pc = "done"

\* ------------------------------------------------ sends and timers settle

ReplyIds ==
    {100 + 10 * h + k : h \in 1..MaxHandlers, k \in 1..4}

\* the chat client acknowledges every send
AckFairness ==
    \A id \in ReplyIds : WF_vars(\E r \in outbox : r.id = id /\ ReplyAck(r))

\* the relay with sends that are acknowledged and timers that fire
SpecFair ==
    Init /\ [][Next]_vars /\ TimerFairness /\ AckFairness

\* every send settles, by an acknowledgement or by a failure
SendFairness ==
    \A id \in ReplyIds :
        WF_vars(\E r \in outbox : r.id = id /\ (ReplyAck(r) \/ ReplyFail(r)))

\* the relay with sends that may fail, each send settling, timers firing
SpecSendFair ==
    Init /\ [][NextSend]_vars /\ TimerFairness /\ SendFairness

\* ------------------------------------------- received, then one terminal

Received(h) ==
    h <= Len(handlers) /\ EventsOf(h, {"CMD_RECEIVED"}) # {}

Terminal(h) ==
    h <= Len(handlers) /\ EventsOf(h, {"CMD_SUCCESS", "CMD_ERROR"}) # {}

\* at most one terminal event, after the CMD_RECEIVED of the same command,
\* and CMD_RECEIVED only for an authorized message handled once
TerminalOnce ==
    \A h \in HandlerIds :
        /\ Cardinality(EventsOf(h, {"CMD_RECEIVED"})) <= 1
        /\ Cardinality(EventsOf(h, {"CMD_SUCCESS", "CMD_ERROR"})) <= 1
        /\ \A i \in EventsOf(h, {"CMD_SUCCESS", "CMD_ERROR"}) :
              \E j \in EventsOf(h, {"CMD_RECEIVED"}) : j < i
        /\ EventsOf(h, {"CMD_RECEIVED"}) # {} =>
              /\ isAuthorized(handlers[h].msg)
              /\ \A g \in HandlerIds : g # h => handlers[g].msg.id # handlers[h].msg.id

\* C35: every CMD_RECEIVED is followed by exactly one of CMD_SUCCESS and
\* CMD_ERROR for the same command, no terminal event comes without a
\* CMD_RECEIVED before it, and no CMD_RECEIVED is written for a message that
\* was denied or dropped as a duplicate
C35_ReceivedThenTerminal ==
    /\ []TerminalOnce
    /\ \A h \in 1..MaxHandlers : Received(h) ~> Terminal(h)

\* ------------------------------------------------- one final reply, in the end

\* handler h exists and is the handler of a text message
TextHandler(h) ==
    h <= Len(handlers) /\ ~IsVoice(handlers[h].msg)

\* the replies of h other than the acknowledgement sent before the bridge call
FinalReplies(h) ==
    {r \in RepliesOf(h) : r.text \notin {<<EGear, " Sending to Claude Code...">>,
                                         <<EThink, " Thinking...">>}}

\* h has its one final reply: the formatted response or the error text
Answered(h) ==
    /\ TextHandler(h)
    /\ \E r \in outbox :
          /\ FinalReplies(h) = {r}
          /\ \/ handlers[h].error = Empty /\ r.text = formatResponse(handlers[h].response)
             \/ handlers[h].error # Empty /\ r.text = ErrorText(handlers[h].error)

\* C36: with sends acknowledged and timers firing, every authorized text
\* message that is neither a duplicate, nor marked, nor a quoted reply gets a
\* final reply in the end, the formatted result or the error text, and never
\* a second one
C36_FinalReplyEventually ==
    /\ [](\A h \in HandlerIds : TextHandler(h) => Cardinality(FinalReplies(h)) <= 1)
    /\ \A h \in 1..MaxHandlers : TextHandler(h) ~> Answered(h)
    /\ \A h \in 1..MaxHandlers : [](Answered(h) => []Answered(h))

\* the worker never exited, the timer fired, and the error text went out
C36_Witness ==
    /\ Answered(1)
    /\ handlers[1].pc = "done"
    /\ handlers[1].error = TimedOut.message
    /\ \E c \in CallsOf(1) : c.killed /\ c.exit = <<>>

\* ------------------------------------------------- long output of a worker

\* more text than formatResponse lets through
LongText ==
    [i \in 1..(maxResponseLength + Len(TruncatedMark) + 1) |-> "e"]

\* exit 0 with {"response": <long text>}
ExitOkLong ==
    [code |-> 0, stdout |-> [kind |-> "object", response |-> LongText,
                             error |-> Empty, raw |-> Empty], stderr |-> Empty]

\* exit 1 with a long stderr (a stack trace)
ExitFailLong ==
    [code |-> 1, stdout |-> [kind |-> "text", response |-> Empty, error |-> Empty,
                             raw |-> Empty], stderr |-> LongText]

\* the messages that reach the bridge, and one that is denied
LongTemplates ==
    {TextMsg(SelfId, TRUE, Empty, BodyStatus, FALSE),
     TextMsg(SelfId, TRUE, Empty, BodyPlain, FALSE),
     TextMsg(SelfId, TRUE, Empty, BodyHelp, FALSE),
     TextMsg(SelfId, FALSE, Empty, BodyStatus, FALSE)}

\* the relay, answered by a worker with long output
NextLong ==
    \/ \E t \in LongTemplates, i \in DeliverableIds : Deliver([t EXCEPT !.id = i])
    \/ \E r \in outbox : Echo(r)
    \/ \E r \in outbox : ReplyAck(r)
    \/ \E c \in calls, e \in {ExitOkLong, ExitFailLong, ExitOkJson, ExitKilled} : ProcClose(c, e)
    \/ \E c \in calls : ProcError(c)
    \/ \E c \in calls : TimerFire(c)

SpecLong ==
    Init /\ [][NextLong]_vars

\* the replies that carry text of a bridge result: the result, the error detail
BridgeDerived ==
    {r \in outbox : \E c \in CallsOf(r.h) : c.result # <<>> /\ r \in FinalReplies(r.h)}

\* C37: every reply that carries text from the bridge, a result, an error
\* detail or a transcription, is at most maxResponseLength plus the
\* truncation mark long
C37_RepliesBounded ==
    \A r \in BridgeDerived : Len(r.text) <= maxResponseLength + Len(TruncatedMark)

\* the part that holds: a long result is cut by formatResponse
C37_ResultCut ==
    \E r \in BridgeDerived, c \in calls :
        /\ c.h = r.h /\ c.exit = <<ExitOkLong>>
        /\ Len(r.text) = maxResponseLength + Len(TruncatedMark)

\* ------------------------------------------- every command of the switch

\* one text for every case of the switch, with and without an argument
CommandBodies ==
    SlashTexts \cup {PrefixCc \o a : a \in {<<"x">>, <<" ", "x">>}}
               \cup {PrefixAsk \o <<"Y", "e", "s">>, <<"y", "e", "s">>, <<"N", "O">>,
                     <<"c", "o", "n", "t", "i", "n", "u", "e">>, BodyPlain}

CommandTemplates ==
    {TextMsg(SelfId, TRUE, Empty, b, FALSE) : b \in CommandBodies}

NextCommands ==
    \/ \E t \in CommandTemplates, i \in DeliverableIds : Deliver([t EXCEPT !.id = i])
    \/ \E r \in outbox : Echo(r)
    \/ \E r \in outbox : ReplyAck(r)
    \/ \E c \in calls, e \in {ExitOkJson, ExitOkStatus, ExitFail, ExitKilled} :
          ProcClose(c, e)
    \/ \E c \in calls : ProcError(c)
    \/ \E c \in calls : TimerFire(c)

SpecCommands ==
    Init /\ [][NextCommands]_vars

\* Help, GroupId and ChangeDir without a path
AnsweredLocally(cmd) ==
    \/ cmd.type \in {"help", "groupid"}
    \/ cmd.type = "cd" /\ cmd.content = Empty

\* the commands whose call carries an argument
ArgumentCommands ==
    {"api", "claude-code", "approve", "cd"}

C38_WitnessLocal ==
    \E h \in 1..Len(handlers) :
        /\ handlers[h].cmd = [type |-> "cd", content |-> Empty]
        /\ handlers[h].pc = "done" /\ CallsOf(h) = {}

\* a prompt reaches the bridge after the acknowledgement, as it was parsed
C38_WitnessPrompt ==
    \E c \in calls :
        /\ c.command = "api"
        /\ c.arg = [name |-> "prompt", value |-> <<"Y", "e", "s">>]

\* ------------------------------------------------ start and shutdown

ServiceEntry(event, reason) ==
    [event |-> event, id |-> 0, reason |-> reason, info |-> <<>>]

\* auditLog(event, ..) outside a handler
ServiceLog(event, reason) ==
    audit' = IF auditWritable THEN Append(audit, ServiceEntry(event, reason)) ELSE audit

Signals ==
    {"SIGINT", "SIGTERM"}

\* the module is loaded, nothing is logged yet
InitService ==
    /\ CONFIG \in RelayConfigs
    /\ relay = "starting"
    /\ auditWritable = TRUE
    /\ textIn = <<>>
    /\ textOut = <<>>
    /\ processedMessages = <<>>
    /\ sentReplies = <<>>
    /\ handlers = <<>>
    /\ calls = {}
    /\ outbox = {}
    /\ delivered = <<>>
    /\ audit = <<>>
    /\ authIn = <<>>
    /\ authOut = FALSE

ServiceFixed ==
    UNCHANGED <<CONFIG, relayVars, authIn, authOut, textIn, textOut, auditWritable>>

\* auditLog('SERVICE_START', ..); client.initialize()
ServiceStart ==
    /\ relay = "starting"
    /\ ServiceLog("SERVICE_START", "")
    /\ relay' = "initializing"
    /\ ServiceFixed

\* client.initialize() resolves, or rejects: SERVICE_ERROR, process.exit(1)
Initialized(ok) ==
    /\ relay = "initializing"
    /\ IF ok THEN audit' = audit ELSE ServiceLog("SERVICE_ERROR", "")
    /\ relay' = IF ok THEN "ready" ELSE "failed"
    /\ ServiceFixed

\* process.on('SIGINT', ..) and process.on('SIGTERM', ..) up to the await
Signal(sig) ==
    /\ relay = "ready"
    /\ IF sig = "SIGINT" THEN ServiceLog("SERVICE_STOP", "SIGINT") ELSE audit' = audit
    /\ relay' = "stopping"
    /\ ServiceFixed

\* client.destroy() settles; process.exit(0)
Destroyed ==
    /\ relay = "stopping"
    /\ relay' = "stopped"
    /\ audit' = audit
    /\ ServiceFixed

NextService ==
    \/ ServiceStart
    \/ \E ok \in BOOLEAN : Initialized(ok)
    \/ \E sig \in Signals : Signal(sig)
    \/ Destroyed
    \/ Next

SpecService ==
    InitService /\ [][NextService]_vars

ServiceEvents(name) ==
    {i \in 1..Len(audit) : audit[i].event = name}

\* C39: a run that is shutting down or was shut down by a signal has logged
\* a SERVICE_STOP for its SERVICE_START
C39_StopLogged ==
    relay \in {"stopping", "stopped"} =>
        Cardinality(ServiceEvents("SERVICE_STOP")) = Cardinality(ServiceEvents("SERVICE_START"))

\* the part that holds: a stop is only logged for a started run, once
C39_StopAfterStart ==
    /\ Cardinality(ServiceEvents("SERVICE_STOP")) <= Cardinality(ServiceEvents("SERVICE_START"))
    /\ \A i \in ServiceEvents("SERVICE_STOP") : relay \in {"stopping", "stopped"}

\* a run stopped by SIGINT, with its SERVICE_STOP
C39_SigintLogged ==
    /\ relay = "stopped"
    /\ \E i \in ServiceEvents("SERVICE_STOP") : audit[i].reason = "SIGINT"

\* ------------------------------------------------- the setup wizard's .env

\* String.prototype.indexOf for a needle of several tokens, counted from 1;
\* 0 where the code gets -1
IndexOf(s, p) ==
    IF IncludesSeq(s, p)
    THEN CHOOSE i \in 1..Len(s) :
            /\ SubSeq(s, i, i + Len(p) - 1) = p
            /\ \A j \in 1..(i-1) : SubSeq(s, j, j + Len(p) - 1) # p
    ELSE 0

\* String.prototype.endsWith
EndsWith(s, p) ==
    Len(p) <= Len(s) /\ SubSeq(s, Len(s) - Len(p) + 1, Len(s)) = p

\* content.split('\n')
RECURSIVE SplitLines(_)
SplitLines(s) ==
    LET i == IndexOf(s, <<"\n">>)
    IN  IF i = 0 THEN <<s>>
        ELSE <<SubSeq(s, 1, i-1)>> \o SplitLines(SubSeq(s, i+1, Len(s)))

\* result.join('\n')
RECURSIVE JoinLines(_)
JoinLines(lines) ==
    IF Len(lines) = 0 THEN Empty
    ELSE IF Len(lines) = 1 THEN lines[1]
    ELSE lines[1] \o <<"\n">> \o JoinLines(Tail(lines))

\* a line that neither function reads: blank, a comment, or without '='
IsPlainLine(line) ==
    LET trimmed == Trim(line)
    IN  trimmed = Empty \/ StartsWith(trimmed, <<"#">>) \/ IndexOf(trimmed, <<"=">>) = 0

\* trimmed.slice(0, eqIndex).trim()
EnvKey(line) ==
    LET trimmed == Trim(line)
    IN  Trim(SubSeq(trimmed, 1, IndexOf(trimmed, <<"=">>) - 1))

\* the value of a line as parseEnvFile reads it: trimmed, one pair of
\* surrounding quotes stripped, cut at the first "  #"
EnvValue(line) ==
    LET trimmed  == Trim(line)
        value    == Trim(SubSeq(trimmed, IndexOf(trimmed, <<"=">>) + 1, Len(trimmed)))
        quoted   == \/ StartsWith(value, <<"\"">>) /\ EndsWith(value, <<"\"">>)
                    \/ StartsWith(value, <<"'">>) /\ EndsWith(value, <<"'">>)
        unquoted == IF quoted THEN SubSeq(value, 2, Len(value) - 1) ELSE value
        comment  == IndexOf(unquoted, <<" ", " ", "#">>)
    IN  IF comment # 0 THEN Trim(SubSeq(unquoted, 1, comment - 1)) ELSE unquoted

\* parseEnvFile(content): the map from keys to values, a later line of a key
\* replacing an earlier one
parseEnvFile(content) ==
    LET lines == SplitLines(content)
        read  == {i \in 1..Len(lines) : ~IsPlainLine(lines[i])}
        keys  == {EnvKey(lines[i]) : i \in read}
    IN  [k \in keys |->
            LET last == CHOOSE i \in read :
                            /\ EnvKey(lines[i]) = k
                            /\ \A j \in read : EnvKey(lines[j]) = k => j <= i
            IN  EnvValue(lines[last])]

\* buildEnvContent(templateContent, values): the template with the lines of
\* the keys in values rewritten as key=value
buildEnvContent(templateContent, values) ==
    LET lines == SplitLines(templateContent)
    IN  JoinLines([i \in 1..Len(lines) |->
            IF IsPlainLine(lines[i]) THEN lines[i]
            ELSE IF EnvKey(lines[i]) \in DOMAIN values
                 THEN EnvKey(lines[i]) \o <<"=">> \o values[EnvKey(lines[i])]
                 ELSE lines[i]])

EnvKeys ==
    {<<"A">>, <<"B">>}

\* templates: both keys, one key missing, one commented out, spaces and an
\* inline comment and quotes, a key twice
EnvTemplates ==
    {<<"A", "=", "o", "\n", "B", "=", "k">>,
     <<"#", " ", "c", "\n", "A", "=", "o", "\n">>,
     <<"#", "A", "=", "o", "\n", "B", "=", "1">>,
     <<" ", "A", " ", "=", " ", "o", " ", " ", "#", "n", "\n", "\n", "B", "=", "'", "q", "'">>,
     <<"A", "=", "1", "\n", "A", "=", "2", "\n", "B", "=">>}

\* values: plain, empty, with '=', with a space inside, with a space in
\* front, in quotes, with "  #" inside
EnvValueTexts ==
    {<<"n">>, Empty, <<"k", "=", "v">>, <<"a", " ", "b">>, <<" ", "x">>,
     <<"\"", "q", "\"">>, <<"a", " ", " ", "#", "b">>}

EnvValueMaps ==
    UNION {[K -> EnvValueTexts] : K \in (SUBSET EnvKeys) \ {{}}}

\* main writes the .env: buildEnvContent(templateContent, envValues)
WriteEnv(template, values) ==
    /\ TextIdle
    /\ textIn' = <<template, values>>
    /\ textOut' = [fn |-> "buildEnvContent", value |-> buildEnvContent(template, values)]
    /\ UNCHANGED <<CONFIG, relayVars, audit, authIn, authOut, auditWritable, relay>>

\* the next run of the wizard reads it: parseEnvFile(fs.readFileSync(envPath))
ReadEnv ==
    /\ Applied("buildEnvContent")
    /\ textOut' = [fn |-> "parseEnvFile", value |-> parseEnvFile(textOut.value)]
    /\ UNCHANGED <<CONFIG, relayVars, audit, authIn, authOut, auditWritable, relay,
                   textIn>>

NextEnv ==
    \/ \E t \in EnvTemplates, v \in EnvValueMaps : WriteEnv(t, v)
    \/ ReadEnv

SpecEnv ==
    Init /\ [][NextEnv]_vars

\* C40: what parseEnvFile reads from buildEnvContent(template, values) maps
\* every key of values to its value
C40_RoundTrip ==
    Applied("parseEnvFile") =>
        \A k \in DOMAIN textIn[2] :
            /\ k \in DOMAIN textOut.value
            /\ textOut.value[k] = textIn[2][k]

\* the key has a line of its own in the template
HasLine(template, k) ==
    \E i \in 1..Len(SplitLines(template)) :
        ~IsPlainLine(SplitLines(template)[i]) /\ EnvKey(SplitLines(template)[i]) = k

\* a value that parseEnvFile reads back as it is
ReadsBack(v) ==
    /\ Trim(v) = v
    /\ ~IncludesSeq(v, <<"\n">>)
    /\ ~IncludesSeq(v, <<" ", " ", "#">>)
    /\ ~(StartsWith(v, <<"\"">>) /\ EndsWith(v, <<"\"">>))
    /\ ~(StartsWith(v, <<"'">>) /\ EndsWith(v, <<"'">>))

\* the part that holds: a key with a line in the template and such a value
C40_RoundTripOfTemplateKeys ==
    Applied("parseEnvFile") =>
        \A k \in DOMAIN textIn[2] :
            HasLine(textIn[1], k) /\ ReadsBack(textIn[2][k]) =>
                /\ k \in DOMAIN textOut.value
                /\ textOut.value[k] = textIn[2][k]

\* a key missing from the template is lost, though its value reads back
C40_ValueLost ==
    /\ Applied("parseEnvFile")
    /\ \E k \in DOMAIN textIn[2] :
          /\ ReadsBack(textIn[2][k])
          /\ k \notin DOMAIN textOut.value
====
